---- MODULE Spec2Model ----
(***************************************************************************)
(* The workunit post-processing stages of                                  *)
(* metadata-ingestion/src/datahub/ingestion/api/source_helpers.py as a     *)
(* chain of Python generators driven by one consumer.                      *)
(*                                                                         *)
(* Positions of the chain: 0 is the source iterator, 1..N are the stages   *)
(* (chain[i] names the stage function), N+1 is the consumer.  Exactly one  *)
(* position runs at a time (active); sig says why control arrived there:   *)
(*   "next"  the downstream neighbour called next() on it,                 *)
(*   "item"  the upstream neighbour yielded the unit in hand,              *)
(*   "stop"  the upstream neighbour is exhausted (StopIteration),          *)
(*   "error" the upstream neighbour raised err.                            *)
(* One action is one run of a generator from the point where it is resumed *)
(* to the point where it next hands control to a neighbour.                *)
(***************************************************************************)
EXTENDS Integers, Sequences, FiniteSets, TLC

VARIABLES
    chain,      \* the stage functions, upstream first
    active,     \* the position that is running
    sig,        \* why it is running
    hand,       \* the unit handed over by the last yield
    err,        \* the exception in flight, "" when none
    frame,      \* frame[i]: the local variables and position of generator i;
                \* frame[0] is the source
    yielded,    \* yielded[i]: what position i has yielded so far, each unit
                \* with the yield statement it came from (history)
    handler,    \* the StaleEntityRemovalHandler collaborator
    report,     \* the SourceReport collaborator: the units reported
    entity_type_fn, \* the entity_type_fn argument of auto_stale_entity_removal
    drop_dirs,  \* the drop_dirs argument of auto_browse_path_v2
    other,      \* a second invocation of the stage, suspended while the first
                \* runs: its active, sig, hand, err, frame and yielded
    bigquery,   \* the BigqueryV2Source object, the API behind it and the
                \* frame of the method that is running
    snowflake   \* the values handed to the validators of SnowflakeV2Config
                \* and what the validation made of them

vars == <<chain, active, sig, hand, err, frame, yielded, handler, report,
          entity_type_fn, drop_dirs, other, bigquery, snowflake>>

\* The variables of the stage pipeline.
pipeline_vars == <<chain, active, sig, hand, err, frame, yielded, handler,
                   report, entity_type_fn, drop_dirs, other, snowflake>>

\* Longest stream the source produces.
MaxLen == 3

\* Most nodes pass 2 of auto_browse_path_v2 takes from its work-list.
MaxPops == 6

None == "None"

\* No second invocation of the stage; no BigQuery source.
NoInvocation == [active |-> None]
NoSource == [method |-> None, pc |-> None]
NoConfig == [pc |-> None]

-----------------------------------------------------------------------------
(* URNs.  "urn:li:<entityType>:<id>" is kept as its parts; ids are single  *)
(* digits, so that the order of the strings is the order of the parts.     *)

Urn(entityType, id) == [entityType |-> entityType, id |-> id]

\* The entity-type token of a URN.
guess_entity_type(urn) == urn.entityType

\* The entity types in the order of their names as strings.
TypeOrder == <<"container", "dataset", "tag">>

TypeRank(t) == CHOOSE k \in 1..Len(TypeOrder) : TypeOrder[k] = t

\* urn a < urn b as Python compares the two strings.
UrnLess(a, b) ==
    \/ TypeRank(a.entityType) < TypeRank(b.entityType)
    \/ a.entityType = b.entityType /\ a.id < b.id

RECURSIVE sorted_descending(_)
\* Variant: the largest URN first.
sorted_descending(S) ==
    IF S = {} THEN <<>>
    ELSE LET m == CHOOSE x \in S : \A y \in S \ {x} : UrnLess(y, x)
         IN  <<m>> \o sorted_descending(S \ {m})

RECURSIVE sorted(_)
\* Python's sorted() over a set of URN strings.
sorted(S) ==
    IF S = {} THEN <<>>
    ELSE LET m == CHOOSE x \in S : \A y \in S \ {x} : UrnLess(x, y)
         IN  <<m>> \o sorted(S \ {m})

Range(s) == {s[k] : k \in 1..Len(s)}

-----------------------------------------------------------------------------
(* Aspects and the three payload shapes of MetadataWorkUnit.metadata, plus *)
(* a payload of no recognised shape.                                       *)

StatusClass(removed) == [ASPECT_NAME |-> "status", removed |-> removed]
DatasetPropertiesClass == [ASPECT_NAME |-> "datasetProperties"]
TagKeyClass(name) == [ASPECT_NAME |-> "tagKey", name |-> name]
TagPropertiesClass == [ASPECT_NAME |-> "tagProperties"]
GlobalTagsClass(tags) == [ASPECT_NAME |-> "globalTags", tags |-> tags]
UpstreamLineageClass(dataset) == [ASPECT_NAME |-> "upstreamLineage", dataset |-> dataset]
ContainerPropertiesClass == [ASPECT_NAME |-> "containerProperties"]
ContainerClass(container) == [ASPECT_NAME |-> "container", container |-> container]
BrowsePathsClass(paths) == [ASPECT_NAME |-> "browsePaths", paths |-> paths]
BrowsePathEntryClass(id, urn) == [id |-> id, urn |-> urn]
BrowsePathsV2Class(path) == [ASPECT_NAME |-> "browsePathsV2", path |-> path]

MetadataChangeEventClass(urn, aspects) ==
    [class |-> "MetadataChangeEventClass", urn |-> urn, aspects |-> aspects]
MetadataChangeProposalWrapper(entityUrn, aspect) ==
    [class |-> "MetadataChangeProposalWrapper", entityUrn |-> entityUrn,
     aspect |-> aspect]
\* The raw proposal carries its aspect serialized, under aspectName.
MetadataChangeProposalClass(entityUrn, aspect) ==
    [class |-> "MetadataChangeProposalClass", entityUrn |-> entityUrn,
     aspectName |-> aspect.ASPECT_NAME, aspect |-> aspect]
UnknownPayload(entityUrn) ==
    [class |-> "dict", entityUrn |-> entityUrn]

MetadataWorkUnit(metadata, is_primary_source) ==
    [metadata |-> metadata, is_primary_source |-> is_primary_source]

\* MetadataWorkUnit(id=..., mce=...): a unit built with its id given; it is
\* primary-source by default.
MetadataWorkUnit_mce(id, mce) ==
    [id |-> id, metadata |-> mce, is_primary_source |-> TRUE]

\* MetadataChangeProposalWrapper.as_workunit(): a primary-source unit.
as_workunit(mcp) == MetadataWorkUnit(mcp, TRUE)

get_urn(wu) ==
    IF wu.metadata.class = "MetadataChangeEventClass"
    THEN wu.metadata.urn
    ELSE wu.metadata.entityUrn

\* The aspects of a payload of recognised shape.
aspects_of(metadata) ==
    IF metadata.class = "MetadataChangeEventClass"
    THEN metadata.aspects
    ELSE <<metadata.aspect>>

\* The URN-valued fields of an aspect.
aspect_urns(aspect) ==
    CASE aspect.ASPECT_NAME = "globalTags" -> Range(aspect.tags)
      [] aspect.ASPECT_NAME = "upstreamLineage" -> {aspect.dataset}
      [] aspect.ASPECT_NAME = "container" -> {aspect.container}
      [] OTHER -> {}

\* list_urns(metadata): the subject URN and every URN-valued field below it.
list_urns(metadata) ==
    {IF metadata.class = "MetadataChangeEventClass"
     THEN metadata.urn ELSE metadata.entityUrn}
    \cup UNION {aspect_urns(a) : a \in Range(aspects_of(metadata))}

\* TagUrn.create_from_string(urn).get_entity_id(): the id parts of a tag URN.
get_entity_id(urn) == <<urn.id>>

\* wu.get_aspects_of_type(cls): the aspects of that type, whichever of the
\* three shapes carries them.
get_aspects_of_type(wu, name) ==
    CASE wu.metadata.class = "MetadataChangeEventClass" ->
           SelectSeq(wu.metadata.aspects, LAMBDA a : a.ASPECT_NAME = name)
      [] wu.metadata.class = "MetadataChangeProposalWrapper" ->
           IF wu.metadata.aspect.ASPECT_NAME = name
           THEN <<wu.metadata.aspect>> ELSE <<>>
      [] wu.metadata.class = "MetadataChangeProposalClass" ->
           IF wu.metadata.aspectName = name
           THEN <<wu.metadata.aspect>> ELSE <<>>

NoUnit == [none |-> TRUE]

-----------------------------------------------------------------------------
(* Python dicts as functions, and strings as sequences of characters.      *)

EmptyDict == <<>>
Put(d, k, v) == [x \in DOMAIN d \cup {k} |-> IF x = k THEN v ELSE d[x]]
\* defaultdict(list): a missing key reads as the empty list.
GetList(d, k) == IF k \in DOMAIN d THEN d[k] ELSE <<>>

RECURSIVE lstrip(_, _)
lstrip(str, chars) ==
    IF str # <<>> /\ Head(str) \in chars THEN lstrip(Tail(str), chars) ELSE str

RECURSIVE rstrip(_, _)
rstrip(str, chars) ==
    IF str # <<>> /\ str[Len(str)] \in chars
    THEN rstrip(SubSeq(str, 1, Len(str) - 1), chars)
    ELSE str

\* str.strip(chars)
strip(str, chars) == rstrip(lstrip(str, chars), chars)

Whitespace == {" "}

RECURSIVE split(_, _)
\* str.split(sep) for a one-character separator: empty pieces are kept.
split(str, sep) ==
    IF \A k \in 1..Len(str) : str[k] # sep
    THEN <<str>>
    ELSE LET k == CHOOSE j \in 1..Len(str) :
                      str[j] = sep /\ \A h \in 1..(j - 1) : str[h] # sep
         IN  <<SubSeq(str, 1, k - 1)>> \o split(SubSeq(str, k + 1, Len(str)), sep)

-----------------------------------------------------------------------------
(* The streams the source can produce, per stage under study.              *)

D1 == Urn("dataset", 1)
D2 == Urn("dataset", 2)

\* Units for auto_status_aspect: every payload shape with and without a
\* status aspect, primary and not.
StatusUnits ==
    { MetadataWorkUnit(MetadataChangeEventClass(D1, <<DatasetPropertiesClass>>), TRUE),
      MetadataWorkUnit(MetadataChangeEventClass(D1,
          <<DatasetPropertiesClass, StatusClass(TRUE)>>), TRUE),
      MetadataWorkUnit(MetadataChangeProposalWrapper(D1, StatusClass(FALSE)), TRUE),
      MetadataWorkUnit(MetadataChangeProposalClass(D1, StatusClass(FALSE)), TRUE),
      MetadataWorkUnit(UnknownPayload(D1), TRUE),
      MetadataWorkUnit(MetadataChangeProposalWrapper(D1, DatasetPropertiesClass), FALSE),
      MetadataWorkUnit(MetadataChangeProposalWrapper(D2, DatasetPropertiesClass), TRUE),
      MetadataWorkUnit(MetadataChangeProposalClass(D2, DatasetPropertiesClass), TRUE),
      MetadataWorkUnit(MetadataChangeProposalWrapper(D2, StatusClass(TRUE)), TRUE),
      MetadataWorkUnit(UnknownPayload(D2), FALSE) }

T1 == Urn("tag", 1)
T2 == Urn("tag", 2)

\* Units for auto_materialize_referenced_tags: tags referenced from wrapped
\* proposals and snapshots, tags as subjects, and references to non-tags.
TagUnits ==
    { MetadataWorkUnit(MetadataChangeProposalWrapper(D1, GlobalTagsClass(<<T1>>)), TRUE),
      MetadataWorkUnit(MetadataChangeEventClass(D1,
          <<DatasetPropertiesClass, GlobalTagsClass(<<T1, T2>>)>>), TRUE),
      MetadataWorkUnit(MetadataChangeProposalWrapper(T1, TagPropertiesClass), TRUE),
      MetadataWorkUnit(MetadataChangeProposalWrapper(T1, GlobalTagsClass(<<T2>>)), TRUE),
      MetadataWorkUnit(MetadataChangeProposalWrapper(T2, TagPropertiesClass), FALSE),
      MetadataWorkUnit(MetadataChangeProposalWrapper(D2, UpstreamLineageClass(D1)), TRUE),
      MetadataWorkUnit(MetadataChangeProposalClass(D2, DatasetPropertiesClass), TRUE) }

D3 == Urn("dataset", 3)
P == Urn("container", 1)
C1 == Urn("container", 2)
C2 == Urn("container", 3)

Path_a_b_c == <<"/", "a", "/", "b", "/", "c">>
Path_a_sp_b == <<"/", "a", "/", " ", "b", "/">>
Path_x == <<"x">>

\* Units for auto_browse_path_v2: containers with and without parents, a
\* container given a second parent (by a later unit, and within one
\* snapshot), legacy paths, an empty list of legacy paths, and pre-existing
\* v2 paths.
BrowseUnits ==
    { MetadataWorkUnit(MetadataChangeProposalWrapper(P, ContainerPropertiesClass), TRUE),
      MetadataWorkUnit(MetadataChangeProposalWrapper(C1, ContainerClass(P)), TRUE),
      MetadataWorkUnit(MetadataChangeProposalClass(C2, ContainerClass(C1)), TRUE),
      MetadataWorkUnit(MetadataChangeProposalWrapper(C1, ContainerClass(C2)), TRUE),
      MetadataWorkUnit(MetadataChangeEventClass(C1,
          <<ContainerClass(C2), ContainerClass(P)>>), TRUE),
      MetadataWorkUnit(MetadataChangeProposalWrapper(C1, BrowsePathsV2Class(<<>>)), TRUE),
      MetadataWorkUnit(MetadataChangeProposalWrapper(D1, ContainerClass(C1)), TRUE),
      MetadataWorkUnit(MetadataChangeEventClass(D1,
          <<ContainerClass(P), BrowsePathsClass(<<Path_a_b_c, Path_x>>)>>), TRUE),
      MetadataWorkUnit(MetadataChangeProposalWrapper(D1,
          BrowsePathsClass(<<Path_a_sp_b>>)), TRUE),
      MetadataWorkUnit(MetadataChangeProposalWrapper(D2,
          BrowsePathsClass(<<Path_a_b_c>>)), TRUE),
      MetadataWorkUnit(MetadataChangeProposalWrapper(D2, BrowsePathsClass(<<>>)), TRUE),
      MetadataWorkUnit(MetadataChangeProposalWrapper(D2,
          BrowsePathsV2Class(<<BrowsePathEntryClass(Path_x, None)>>)), FALSE) }

\* The drop_dirs argument tried: the directory "b".
DropDirs == { {<<"b">>} }

\* Units for auto_stale_entity_removal and auto_workunit_reporter.
PlainUnits ==
    { MetadataWorkUnit(MetadataChangeProposalWrapper(u, DatasetPropertiesClass), p) :
        u \in {D1, D2, D3}, p \in BOOLEAN }
    \cup { MetadataWorkUnit(MetadataChangeProposalWrapper(P, ContainerPropertiesClass), TRUE) }

ReporterUnits ==
    { MetadataWorkUnit(MetadataChangeProposalWrapper(u, DatasetPropertiesClass), TRUE) :
        u \in {D1, D2, D3} }

\* Units for the whole pipeline: each stage finds something to synthesize.
PipelineUnits ==
    { MetadataWorkUnit(MetadataChangeProposalWrapper(C1, ContainerClass(P)), TRUE),
      MetadataWorkUnit(MetadataChangeProposalWrapper(P, GlobalTagsClass(<<T2, T1>>)), TRUE),
      MetadataWorkUnit(MetadataChangeProposalWrapper(D1,
          BrowsePathsClass(<<Path_x>>)), FALSE) }

\* Units for auto_status_aspect run over its own output: URNs with and
\* without a status, in each payload shape, primary and not.
TwiceUnits ==
    { MetadataWorkUnit(MetadataChangeEventClass(D1, <<DatasetPropertiesClass>>), TRUE),
      MetadataWorkUnit(MetadataChangeProposalWrapper(D1, DatasetPropertiesClass), FALSE),
      MetadataWorkUnit(MetadataChangeProposalClass(D2, DatasetPropertiesClass), TRUE),
      MetadataWorkUnit(MetadataChangeProposalWrapper(D2, StatusClass(TRUE)), TRUE) }

\* auto_status_aspect over the output of auto_status_aspect.
Twice == << "auto_status_aspect", "auto_status_aspect" >>

\* Items for auto_workunit: snapshots and wrapped proposals.
Items ==
    { MetadataChangeEventClass(D1, <<DatasetPropertiesClass>>),
      MetadataChangeEventClass(D2, <<DatasetPropertiesClass, StatusClass(FALSE)>>),
      MetadataChangeProposalWrapper(D1, DatasetPropertiesClass),
      MetadataChangeProposalWrapper(T1, TagPropertiesClass) }

\* The five stages in the order of section 2 of the design.
Pipeline ==
    << "auto_status_aspect", "auto_materialize_referenced_tags",
       "auto_browse_path_v2", "auto_stale_entity_removal",
       "auto_workunit_reporter" >>

\* auto_status_aspect(auto_materialize_referenced_tags(S)), and units for
\* it: a dataset that names two tags, a tag with an aspect of its own, and a
\* unit that is not primary-source and names a tag.
Composed == <<"auto_materialize_referenced_tags", "auto_status_aspect">>

ComposedUnits ==
    { MetadataWorkUnit(MetadataChangeProposalWrapper(D1, GlobalTagsClass(<<T2, T1>>)), TRUE),
      MetadataWorkUnit(MetadataChangeProposalWrapper(T1, TagPropertiesClass), TRUE),
      MetadataWorkUnit(MetadataChangeProposalWrapper(D2, GlobalTagsClass(<<T2>>)), FALSE) }

Chains ==
    { <<"auto_workunit">>,
      <<"auto_status_aspect">>,
      <<"auto_materialize_referenced_tags">>,
      <<"auto_stale_entity_removal">>,
      <<"auto_workunit_reporter">>,
      <<"auto_browse_path_v2">>,
      Twice,
      Composed,
      Pipeline }

StreamUnits(c) ==
    CASE c = <<"auto_workunit">> -> Items
      [] c = <<"auto_status_aspect">> -> StatusUnits
      [] c = <<"auto_materialize_referenced_tags">> -> TagUnits
      [] c = <<"auto_stale_entity_removal">> -> PlainUnits
      [] c = <<"auto_workunit_reporter">> -> ReporterUnits
      [] c = <<"auto_browse_path_v2">> -> BrowseUnits
      [] c = Twice -> TwiceUnits
      [] c = Composed -> ComposedUnits
      [] c = Pipeline -> PipelineUnits

\* The prior checkpoints and classification functions tried.
Checkpoints == { {}, {D1, D2}, {D1, D2, D3} }
EntityTypeFns == { "_default_entity_type_fn", "containers_only" }

-----------------------------------------------------------------------------
(* The generator chain.                                                    *)

N == Len(chain)
Stages == 1..N
Consumer == N + 1

InitFrame(fn) ==
    CASE fn = "auto_workunit" -> [pc |-> "loop"]
      [] fn = "auto_status_aspect" ->
           [pc |-> "loop", all_urns |-> {}, status_urns |-> {}, todo |-> <<>>]
      [] fn = "auto_materialize_referenced_tags" ->
           [pc |-> "loop", referenced_tags |-> {}, tags_with_aspects |-> {},
            todo |-> <<>>]
      [] fn = "auto_stale_entity_removal" -> [pc |-> "loop", todo |-> <<>>]
      [] fn = "auto_workunit_reporter" -> [pc |-> "loop"]
      [] fn = "auto_browse_path_v2" ->
           [pc |-> "loop", wu |-> NoUnit, ignore_urns |-> {},
            legacy_browse_paths |-> EmptyDict, container_urns |-> {},
            parent_container_map |-> EmptyDict, children |-> EmptyDict,
            paths |-> EmptyDict, processed_urns |-> {}, nodes |-> {},
            todo |-> {}, pops |-> 0]

Uses(c, fn) == \E k \in 1..Len(c) : c[k] = fn

\* The StaleEntityRemovalHandler of a run: the checkpoint of the prior run,
\* what this run has added, and the calls made on it.
InitHandler(checkpoint) ==
    [checkpoint |-> checkpoint, state |-> {}, skip |-> {}, calls |-> <<>>]

Init ==
    /\ chain \in Chains
    /\ active = Len(chain) + 1
    /\ sig = "idle"
    /\ hand = NoUnit
    /\ err = ""
    /\ frame = [i \in 0..Len(chain) |->
                    IF i = 0 THEN [pc |-> "loop"] ELSE InitFrame(chain[i])]
    /\ yielded = [i \in 0..Len(chain) |-> <<>>]
    /\ handler \in {InitHandler(c) : c \in
            CASE chain = <<"auto_stale_entity_removal">> -> Checkpoints
              [] chain = Pipeline -> {{D1, D2}}
              [] OTHER -> {{}}}
    /\ report = <<>>
    /\ entity_type_fn \in IF chain = <<"auto_stale_entity_removal">>
                          THEN EntityTypeFns ELSE {"_default_entity_type_fn"}
    /\ drop_dirs \in IF chain = <<"auto_browse_path_v2">> THEN DropDirs ELSE {{}}
    /\ other = NoInvocation
    /\ bigquery = NoSource
    /\ snowflake = NoConfig

\* Position i yields wu to its downstream neighbour; by names the yield
\* statement: "input" for the one of the input loop, else the kind of unit
\* synthesized.
Yield(i, wu, by) ==
    /\ yielded' = [yielded EXCEPT ![i] = Append(@, [wu |-> wu, by |-> by])]
    /\ hand' = wu
    /\ active' = i + 1
    /\ sig' = "item"
    /\ err' = err

\* Generator i returns: its downstream neighbour sees StopIteration.
Return(i) ==
    /\ active' = i + 1
    /\ sig' = "stop"
    /\ UNCHANGED <<hand, err, yielded>>

\* Generator i raises e (or lets it pass): no stage catches anything.
Raise(i, e) ==
    /\ active' = i + 1
    /\ sig' = "error"
    /\ err' = e
    /\ UNCHANGED <<hand, yielded>>

\* Generator i asks its upstream neighbour for the next unit.
CallUpstream(i) ==
    /\ active' = i - 1
    /\ sig' = "next"
    /\ UNCHANGED <<hand, err, yielded>>

\* The generator goes on without handing control over.
Continue(i) ==
    /\ active' = i
    /\ sig' = "run"
    /\ UNCHANGED <<hand, err, yielded>>

\* The units position i has yielded, and those among them of either kind.
Units(i) == [k \in 1..Len(yielded[i]) |-> yielded[i][k].wu]
PassedThrough(i) == SelectSeq(yielded[i], LAMBDA y : y.by = "input")
Synthesized(i) == SelectSeq(yielded[i], LAMBDA y : y.by # "input")

(* The source: any iterator of at most MaxLen units, which may raise.      *)
SourceYield ==
    /\ active = 0 /\ sig = "next"
    /\ Len(yielded[0]) < MaxLen
    /\ \E wu \in StreamUnits(chain) : Yield(0, wu, "input")
    /\ UNCHANGED <<snowflake, bigquery, other, chain, frame, handler, report, entity_type_fn, drop_dirs>>

SourceStop ==
    /\ active = 0 /\ sig = "next"
    /\ frame' = [frame EXCEPT ![0].pc = "done"]
    /\ Return(0)
    /\ UNCHANGED <<snowflake, bigquery, other, chain, handler, report, entity_type_fn, drop_dirs>>

SourceRaise ==
    /\ active = 0 /\ sig = "next"
    /\ frame' = [frame EXCEPT ![0].pc = "raised"]
    /\ Raise(0, "SourceError")
    /\ UNCHANGED <<snowflake, bigquery, other, chain, handler, report, entity_type_fn, drop_dirs>>

(* The consumer pulls one unit at a time from the last stage and may stop *)
(* pulling at any point.                                                   *)
ConsumerNext ==
    /\ active = Consumer /\ sig \in {"idle", "item"}
    /\ active' = N
    /\ sig' = "next"
    /\ UNCHANGED <<snowflake, bigquery, other, chain, hand, err, frame, yielded, handler, report,
                   entity_type_fn, drop_dirs>>

ConsumerStop ==
    /\ active = Consumer /\ sig \in {"idle", "item"}
    /\ sig' = "abandoned"
    /\ UNCHANGED <<snowflake, bigquery, other, chain, active, hand, err, frame, yielded, handler, report,
                   entity_type_fn, drop_dirs>>

(* What every stage does alike.                                            *)

\* A stage resumed inside or before its input loop asks for the next unit.
StagePull(i) ==
    /\ active = i /\ sig = "next"
    /\ frame[i].pc = "loop"
    /\ CallUpstream(i)
    /\ UNCHANGED <<snowflake, bigquery, other, chain, frame, handler, report, entity_type_fn, drop_dirs>>

\* Variant: the stage catches the exception and takes its input as ended.
StageSwallow(i) ==
    /\ active = i /\ sig = "error"
    /\ active' = i
    /\ sig' = "stop"
    /\ err' = ""
    /\ UNCHANGED <<snowflake, bigquery, other, chain, hand, frame, yielded, handler, report, entity_type_fn,
                   drop_dirs>>

\* An exception of the upstream passes through the stage and ends it.
StagePropagate(i) ==
    /\ active = i /\ sig = "error"
    /\ frame' = [frame EXCEPT ![i].pc = "raised"]
    /\ Raise(i, err)
    /\ UNCHANGED <<snowflake, bigquery, other, chain, handler, report, entity_type_fn, drop_dirs>>

-----------------------------------------------------------------------------
(* auto_workunit                                                           *)

\* The f-string of line 48: the URN followed by "/mce".
mce_id(urn) == <<urn, "/mce">>

\* Variant: every item is asked to build its unit.
workunit_of_delegating(item) == as_workunit(item)

\* Lines 47-50: the unit of one item.
workunit_of(item) ==
    IF item.class = "MetadataChangeEventClass"
    THEN MetadataWorkUnit_mce(mce_id(item.urn), item)
    ELSE as_workunit(item)

\* The body of the loop for one item: lines 46-50.
auto_workunit_item(i) ==
    /\ chain[i] = "auto_workunit"
    /\ active = i /\ sig = "item"
    /\ Yield(i, workunit_of(hand), "input")
    /\ UNCHANGED <<snowflake, bigquery, other, chain, frame, handler, report, entity_type_fn, drop_dirs>>

\* The input is exhausted: the generator returns.
auto_workunit_stop(i) ==
    /\ chain[i] = "auto_workunit"
    /\ active = i /\ sig = "stop"
    /\ frame' = [frame EXCEPT ![i].pc = "done"]
    /\ Return(i)
    /\ UNCHANGED <<snowflake, bigquery, other, chain, handler, report, entity_type_fn, drop_dirs>>

-----------------------------------------------------------------------------
(* auto_status_aspect                                                      *)

\* The payload is one of the three shapes of lines 70, 76 and 79.
recognised(wu) ==
    wu.metadata.class \in {"MetadataChangeEventClass",
                           "MetadataChangeProposalWrapper",
                           "MetadataChangeProposalClass"}

\* Variant: only the snapshot is inspected.
has_status_aspect_snapshot_only(wu) ==
    /\ wu.metadata.class = "MetadataChangeEventClass"
    /\ \E k \in 1..Len(wu.metadata.aspects) :
           wu.metadata.aspects[k].ASPECT_NAME = StatusClass(FALSE).ASPECT_NAME

\* Variant: only the wrapped proposal is inspected.
has_status_aspect_wrapped_only(wu) ==
    /\ wu.metadata.class = "MetadataChangeProposalWrapper"
    /\ wu.metadata.aspect.ASPECT_NAME = StatusClass(FALSE).ASPECT_NAME

\* Does a unit of recognised shape carry a status aspect: lines 70-81.
has_status_aspect(wu) ==
    CASE wu.metadata.class = "MetadataChangeEventClass" ->
           \E k \in 1..Len(wu.metadata.aspects) :
               wu.metadata.aspects[k].ASPECT_NAME = StatusClass(FALSE).ASPECT_NAME
      [] wu.metadata.class = "MetadataChangeProposalWrapper" ->
           wu.metadata.aspect.ASPECT_NAME = StatusClass(FALSE).ASPECT_NAME
      [] wu.metadata.class = "MetadataChangeProposalClass" ->
           wu.metadata.aspectName = StatusClass(FALSE).ASPECT_NAME

\* Variant: a unit that is not primary-source is inspected like any other.
counts_as_status_by_payload(wu) == recognised(wu) /\ has_status_aspect(wu)

\* Lines 66-81: is the unit's URN added to status_urns.
counts_as_status(wu) ==
    IF ~wu.is_primary_source THEN TRUE ELSE has_status_aspect(wu)

\* Variant: a primary-source unit of unrecognised payload is dropped and the
\* loop goes on.
auto_status_aspect_item_skipping(i) ==
    /\ chain[i] = "auto_status_aspect"
    /\ active = i /\ sig = "item"
    /\ LET wu == hand
           urn == get_urn(wu)
           f == frame[i]
       IN  IF wu.is_primary_source /\ ~recognised(wu)
           THEN /\ frame' = [frame EXCEPT ![i] = [f EXCEPT !.all_urns = @ \cup {urn}]]
                /\ CallUpstream(i)
           ELSE /\ frame' = [frame EXCEPT ![i] =
                      [f EXCEPT !.all_urns = @ \cup {urn},
                                !.status_urns =
                                    IF counts_as_status(wu) THEN @ \cup {urn} ELSE @]]
                /\ Yield(i, wu, "input")
    /\ UNCHANGED <<snowflake, bigquery, other, chain, handler, report, entity_type_fn, drop_dirs>>

\* Variant: the shape of the payload is checked after the unit has been
\* yielded.
auto_status_aspect_item_checked_late(i) ==
    /\ chain[i] = "auto_status_aspect"
    /\ active = i /\ sig = "item"
    /\ LET wu == hand
           urn == get_urn(wu)
           f == frame[i]
       IN  IF wu.is_primary_source /\ ~recognised(wu)
           THEN /\ frame' = [frame EXCEPT ![i] =
                      [f EXCEPT !.pc = "raised", !.all_urns = @ \cup {urn}]]
                /\ Yield(i, wu, "input")
           ELSE /\ frame' = [frame EXCEPT ![i] =
                      [f EXCEPT !.all_urns = @ \cup {urn},
                                !.status_urns =
                                    IF counts_as_status(wu) THEN @ \cup {urn} ELSE @]]
                /\ Yield(i, wu, "input")
    /\ UNCHANGED <<snowflake, bigquery, other, chain, handler, report, entity_type_fn, drop_dirs>>

\* The body of the input loop for one unit: lines 63-85.
auto_status_aspect_item(i) ==
    /\ chain[i] = "auto_status_aspect"
    /\ active = i /\ sig = "item"
    /\ LET wu == hand
           urn == get_urn(wu)
           f == frame[i]
       IN  IF wu.is_primary_source /\ ~recognised(wu)
           THEN /\ frame' = [frame EXCEPT ![i] =
                      [f EXCEPT !.pc = "raised", !.all_urns = @ \cup {urn}]]
                /\ Raise(i, "ValueError")
           ELSE /\ frame' = [frame EXCEPT ![i] =
                      [f EXCEPT !.all_urns = @ \cup {urn},
                                !.status_urns =
                                    IF counts_as_status(wu) THEN @ \cup {urn} ELSE @]]
                /\ Yield(i, wu, "input")
    /\ UNCHANGED <<snowflake, bigquery, other, chain, handler, report, entity_type_fn, drop_dirs>>

\* The synthetic unit of lines 88-91.
status_workunit(urn) ==
    as_workunit(MetadataChangeProposalWrapper(urn, StatusClass(FALSE)))

\* The loop of lines 87-91 over the list todo: yield its head, or return.
auto_status_aspect_emit(i, todo) ==
    IF todo = <<>>
    THEN /\ frame' = [frame EXCEPT ![i].pc = "done", ![i].todo = <<>>]
         /\ Return(i)
    ELSE /\ frame' = [frame EXCEPT ![i].pc = "final", ![i].todo = Tail(todo)]
         /\ Yield(i, status_workunit(Head(todo)), "status")

\* The input is exhausted: line 87 sorts the URNs without a status.
auto_status_aspect_stop(i) ==
    /\ chain[i] = "auto_status_aspect"
    /\ active = i /\ sig = "stop"
    /\ auto_status_aspect_emit(i, sorted(frame[i].all_urns \ frame[i].status_urns))
    /\ UNCHANGED <<snowflake, bigquery, other, chain, handler, report, entity_type_fn, drop_dirs>>

\* Resumed after a synthetic unit.
auto_status_aspect_next(i) ==
    /\ chain[i] = "auto_status_aspect"
    /\ active = i /\ sig = "next"
    /\ frame[i].pc = "final"
    /\ auto_status_aspect_emit(i, frame[i].todo)
    /\ UNCHANGED <<snowflake, bigquery, other, chain, handler, report, entity_type_fn, drop_dirs>>

-----------------------------------------------------------------------------
(* auto_stale_entity_removal and its collaborator                          *)

_default_entity_type_fn(wu) == guess_entity_type(get_urn(wu))

\* entity_type_fn(wu): the default, or a caller's function that knows
\* containers only.
ApplyEntityTypeFn(fn, wu) ==
    IF fn = "_default_entity_type_fn"
    THEN _default_entity_type_fn(wu)
    ELSE IF guess_entity_type(get_urn(wu)) = "container" THEN "container" ELSE None

add_entity_to_state(h, entity_type, urn) ==
    [h EXCEPT !.state = @ \cup {<<entity_type, urn>>},
              !.calls = Append(@, <<"add_entity_to_state", entity_type, urn>>)]

add_urn_to_skip(h, urn) ==
    [h EXCEPT !.skip = @ \cup {urn},
              !.calls = Append(@, <<"add_urn_to_skip", urn>>)]

\* The URNs of the prior checkpoint neither seen in this run nor to skip.
stale_urns(h) == (h.checkpoint \ {e[2] : e \in h.state}) \ h.skip

\* A removal unit: a soft delete of the entity.
removal_workunit(urn) ==
    as_workunit(MetadataChangeProposalWrapper(urn, StatusClass(TRUE)))

\* Variant: every unit is registered as seen, primary or not.
route_all_as_seen(h, fn, wu) ==
    add_entity_to_state(h, guess_entity_type(get_urn(wu)), get_urn(wu))

\* Variant: a unit that is not primary-source is not registered at all.
route_ignoring_non_primary(h, fn, wu) ==
    IF wu.is_primary_source /\ ApplyEntityTypeFn(fn, wu) # None
    THEN add_entity_to_state(h, ApplyEntityTypeFn(fn, wu), get_urn(wu))
    ELSE h

\* Lines 112-119: what the stage tells the collaborator about one unit.
route(h, fn, wu) ==
    IF wu.is_primary_source
    THEN LET entity_type == ApplyEntityTypeFn(fn, wu)
         IN  IF entity_type # None
             THEN add_entity_to_state(h, entity_type, get_urn(wu))
             ELSE h
    ELSE add_urn_to_skip(h, get_urn(wu))

\* Variant: line 124 indented into the loop, the removals follow the first
\* unit.
auto_stale_entity_removal_item_indented(i) ==
    /\ chain[i] = "auto_stale_entity_removal"
    /\ active = i /\ sig = "item"
    /\ LET h == route(handler, entity_type_fn, hand)
       IN  /\ handler' = [h EXCEPT
                   !.calls = Append(@, <<"gen_removed_entity_workunits">>)]
           /\ frame' = [frame EXCEPT ![i].pc = "final",
                                     ![i].todo = sorted(stale_urns(h))]
    /\ Yield(i, hand, "input")
    /\ UNCHANGED <<snowflake, bigquery, other, chain, report, entity_type_fn, drop_dirs>>

\* The body of the input loop for one unit: lines 112-121.
auto_stale_entity_removal_item(i) ==
    /\ chain[i] = "auto_stale_entity_removal"
    /\ active = i /\ sig = "item"
    /\ handler' = route(handler, entity_type_fn, hand)
    /\ Yield(i, hand, "input")
    /\ UNCHANGED <<snowflake, bigquery, other, chain, frame, report, entity_type_fn, drop_dirs>>

\* yield from over the list todo: yield its head, or return.
auto_stale_entity_removal_emit(i, todo) ==
    IF todo = <<>>
    THEN /\ frame' = [frame EXCEPT ![i].pc = "done", ![i].todo = <<>>]
         /\ Return(i)
    ELSE /\ frame' = [frame EXCEPT ![i].pc = "final", ![i].todo = Tail(todo)]
         /\ Yield(i, removal_workunit(Head(todo)), "removal")

\* Variant: the collaborator is asked twice, once to see whether there is
\* anything to remove and once for the removals.
auto_stale_entity_removal_stop_asking_twice(i) ==
    /\ chain[i] = "auto_stale_entity_removal"
    /\ active = i /\ sig = "stop"
    /\ handler' = [handler EXCEPT
                      !.calls = IF stale_urns(handler) = {}
                                THEN Append(@, <<"gen_removed_entity_workunits">>)
                                ELSE @ \o << <<"gen_removed_entity_workunits">>,
                                             <<"gen_removed_entity_workunits">> >>]
    /\ auto_stale_entity_removal_emit(i, sorted(stale_urns(handler)))
    /\ UNCHANGED <<snowflake, bigquery, other, chain, report, entity_type_fn, drop_dirs>>

\* The input is exhausted: line 124 asks the collaborator for the removals.
auto_stale_entity_removal_stop(i) ==
    /\ chain[i] = "auto_stale_entity_removal"
    /\ active = i /\ sig = "stop"
    /\ handler' = [handler EXCEPT
                      !.calls = Append(@, <<"gen_removed_entity_workunits">>)]
    /\ auto_stale_entity_removal_emit(i, sorted(stale_urns(handler)))
    /\ UNCHANGED <<snowflake, bigquery, other, chain, report, entity_type_fn, drop_dirs>>

\* Resumed after a removal unit.
auto_stale_entity_removal_next(i) ==
    /\ chain[i] = "auto_stale_entity_removal"
    /\ active = i /\ sig = "next"
    /\ frame[i].pc = "final"
    /\ auto_stale_entity_removal_emit(i, frame[i].todo)
    /\ UNCHANGED <<snowflake, bigquery, other, chain, handler, report, entity_type_fn, drop_dirs>>

-----------------------------------------------------------------------------
(* auto_workunit_reporter                                                  *)

\* Variant: the unit is yielded first and reported when the generator is
\* resumed, along with the work on the next unit.
auto_workunit_reporter_item_late(i) ==
    /\ chain[i] = "auto_workunit_reporter"
    /\ active = i /\ sig = "item"
    /\ \/ /\ report' = IF yielded[i] = <<>> THEN report
                        ELSE Append(report, yielded[i][Len(yielded[i])].wu)
          /\ Yield(i, hand, "input")
          /\ frame' = frame
       \/ /\ report' = report
          /\ frame' = [frame EXCEPT ![i].pc = "raised"]
          /\ Raise(i, "ReportError")
    /\ UNCHANGED <<snowflake, bigquery, other, chain, handler, entity_type_fn, drop_dirs>>

\* Line 136: the call of report.report_workunit(wu), which records the unit
\* or fails; a failing call ends the generator before the yield.
auto_workunit_reporter_item(i) ==
    /\ chain[i] = "auto_workunit_reporter"
    /\ active = i /\ sig = "item"
    /\ \/ /\ report' = Append(report, hand)
          /\ frame' = [frame EXCEPT ![i].pc = "reported"]
          /\ Continue(i)
       \/ /\ report' = report
          /\ frame' = [frame EXCEPT ![i].pc = "raised"]
          /\ Raise(i, "ReportError")
    /\ UNCHANGED <<snowflake, bigquery, other, chain, handler, entity_type_fn, drop_dirs>>

\* Line 137: the report call has returned, the unit is yielded.
auto_workunit_reporter_yield(i) ==
    /\ chain[i] = "auto_workunit_reporter"
    /\ active = i /\ sig = "run"
    /\ frame[i].pc = "reported"
    /\ frame' = [frame EXCEPT ![i].pc = "loop"]
    /\ Yield(i, hand, "input")
    /\ UNCHANGED <<snowflake, bigquery, other, chain, handler, report, entity_type_fn, drop_dirs>>

\* The input is exhausted: the generator returns.
auto_workunit_reporter_stop(i) ==
    /\ chain[i] = "auto_workunit_reporter"
    /\ active = i /\ sig = "stop"
    /\ frame' = [frame EXCEPT ![i].pc = "done"]
    /\ Return(i)
    /\ UNCHANGED <<snowflake, bigquery, other, chain, handler, report, entity_type_fn, drop_dirs>>

-----------------------------------------------------------------------------
(* auto_materialize_referenced_tags                                        *)

\* Lines 149-151: the tag URNs among the URNs of the payload.
tags_in(metadata) == {urn \in list_urns(metadata) : guess_entity_type(urn) = "tag"}

\* The body of the input loop for one unit: lines 149-157.
auto_materialize_referenced_tags_item(i) ==
    /\ chain[i] = "auto_materialize_referenced_tags"
    /\ active = i /\ sig = "item"
    /\ LET wu == hand
           urn == get_urn(wu)
       IN  /\ frame' = [frame EXCEPT
                 ![i].referenced_tags = @ \cup tags_in(wu.metadata),
                 ![i].tags_with_aspects =
                     IF guess_entity_type(urn) = "tag" THEN @ \cup {urn} ELSE @]
           /\ Yield(i, wu, "input")
    /\ UNCHANGED <<snowflake, bigquery, other, chain, handler, report, entity_type_fn, drop_dirs>>

\* Variant: the tag-key unit is not marked as primary-source.
tag_key_workunit_not_primary(urn) ==
    MetadataWorkUnit(
        MetadataChangeProposalWrapper(urn, TagKeyClass(get_entity_id(urn)[1])),
        FALSE)

\* The synthetic unit of lines 160-165.
tag_key_workunit(urn) ==
    as_workunit(MetadataChangeProposalWrapper(urn, TagKeyClass(get_entity_id(urn)[1])))

\* The loop of lines 159-165 over the list todo: yield its head, or return.
auto_materialize_referenced_tags_emit(i, todo) ==
    IF todo = <<>>
    THEN /\ frame' = [frame EXCEPT ![i].pc = "done", ![i].todo = <<>>]
         /\ Return(i)
    ELSE /\ frame' = [frame EXCEPT ![i].pc = "final", ![i].todo = Tail(todo)]
         /\ Yield(i, tag_key_workunit(Head(todo)), "tag_key")

\* Variant: the tags that are subjects are not taken out.
tags_to_materialize_all(f) == f.referenced_tags

\* Line 159: the tags referenced and never a subject.
tags_to_materialize(f) == f.referenced_tags \ f.tags_with_aspects

\* The input is exhausted: line 159 sorts the tags to materialize.
auto_materialize_referenced_tags_stop(i) ==
    /\ chain[i] = "auto_materialize_referenced_tags"
    /\ active = i /\ sig = "stop"
    /\ auto_materialize_referenced_tags_emit(i, sorted(tags_to_materialize(frame[i])))
    /\ UNCHANGED <<snowflake, bigquery, other, chain, handler, report, entity_type_fn, drop_dirs>>

\* Resumed after a synthetic unit.
auto_materialize_referenced_tags_next(i) ==
    /\ chain[i] = "auto_materialize_referenced_tags"
    /\ active = i /\ sig = "next"
    /\ frame[i].pc = "final"
    /\ auto_materialize_referenced_tags_emit(i, frame[i].todo)
    /\ UNCHANGED <<snowflake, bigquery, other, chain, handler, report, entity_type_fn, drop_dirs>>

-----------------------------------------------------------------------------
(* auto_browse_path_v2                                                     *)

\* Variant: the unit is wrapped anew before it is yielded.
auto_browse_path_v2_item_rewrapped(i) ==
    /\ chain[i] = "auto_browse_path_v2"
    /\ active = i /\ sig = "item"
    /\ frame' = [frame EXCEPT ![i].pc = "yielded", ![i].wu = hand]
    /\ Yield(i, as_workunit(hand.metadata), "input")
    /\ UNCHANGED <<snowflake, bigquery, other, chain, handler, report, entity_type_fn, drop_dirs>>

\* Variant: the stage reads one unit ahead of the one it yields.
auto_browse_path_v2_item_lookahead(i) ==
    /\ chain[i] = "auto_browse_path_v2"
    /\ active = i /\ sig = "item"
    /\ IF frame[i].wu = NoUnit
       THEN /\ frame' = [frame EXCEPT ![i].wu = hand]
            /\ CallUpstream(i)
       ELSE /\ frame' = [frame EXCEPT ![i].pc = "yielded", ![i].wu = hand]
            /\ Yield(i, frame[i].wu, "input")
    /\ UNCHANGED <<snowflake, bigquery, other, chain, handler, report, entity_type_fn, drop_dirs>>

\* The input loop yields first: line 180.
auto_browse_path_v2_item(i) ==
    /\ chain[i] = "auto_browse_path_v2"
    /\ active = i /\ sig = "item"
    /\ frame' = [frame EXCEPT ![i].pc = "yielded", ![i].wu = hand]
    /\ Yield(i, hand, "input")
    /\ UNCHANGED <<snowflake, bigquery, other, chain, handler, report, entity_type_fn, drop_dirs>>

RECURSIVE record_containers(_, _, _)
\* Lines 187-190 over the container aspects of a unit, in their order.
record_containers(f, urn, container_aspects) ==
    IF container_aspects = <<>> THEN f
    ELSE LET parent == Head(container_aspects).container
         IN  record_containers(
                 [f EXCEPT !.parent_container_map = Put(@, urn, parent),
                           !.children = Put(@, parent, Append(GetList(@, parent), urn))],
                 urn, Tail(container_aspects))

\* Variant: a segment is compared with drop_dirs as it stands, untrimmed.
legacy_segments_untrimmed(paths, dirs) ==
    SelectSeq(split(strip(paths[1], {"/"}), "/"), LAMBDA p : p \notin dirs)

\* Lines 195-198: the segments kept of the first path.
legacy_segments(paths, dirs) ==
    SelectSeq(split(strip(paths[1], {"/"}), "/"),
              LAMBDA p : strip(p, Whitespace) \notin dirs)

RECURSIVE record_browse_paths(_, _, _, _)
\* Lines 193-198 over the browse-paths aspects of a unit, in their order.
record_browse_paths(f, urn, browse_path_aspects, dirs) ==
    IF browse_path_aspects = <<>> THEN f
    ELSE LET b_aspect == Head(browse_path_aspects)
             g == IF b_aspect.paths # <<>>
                  THEN [f EXCEPT !.legacy_browse_paths =
                            Put(@, urn, legacy_segments(b_aspect.paths, dirs))]
                  ELSE f
         IN  record_browse_paths(g, urn, Tail(browse_path_aspects), dirs)

\* Lines 182-201: what pass 1 records of one unit.
record_unit(f, wu, dirs) ==
    LET urn == get_urn(wu)
        f1 == IF guess_entity_type(urn) = "container"
              THEN [f EXCEPT !.container_urns = @ \cup {urn}]
              ELSE f
        f2 == record_containers(f1, urn, get_aspects_of_type(wu, "container"))
        f3 == record_browse_paths(f2, urn, get_aspects_of_type(wu, "browsePaths"), dirs)
    IN  IF get_aspects_of_type(wu, "browsePathsV2") # <<>>
        THEN [f3 EXCEPT !.ignore_urns = @ \cup {urn}]
        ELSE f3

\* Resumed after line 180: record the unit, then ask for the next one.
auto_browse_path_v2_next(i) ==
    /\ chain[i] = "auto_browse_path_v2"
    /\ active = i /\ sig = "next"
    /\ frame[i].pc = "yielded"
    /\ frame' = [frame EXCEPT ![i] =
           [record_unit(frame[i], frame[i].wu, drop_dirs) EXCEPT !.pc = "loop"]]
    /\ CallUpstream(i)
    /\ UNCHANGED <<snowflake, bigquery, other, chain, handler, report, entity_type_fn, drop_dirs>>

\* Line 206: the containers without a recorded parent.
roots(f) == f.container_urns \ DOMAIN f.parent_container_map

\* The input is exhausted: lines 203-206 set up pass 2.
auto_browse_path_v2_stop(i) ==
    /\ chain[i] = "auto_browse_path_v2"
    /\ active = i /\ sig = "stop"
    /\ frame' = [frame EXCEPT ![i].pc = "pass2",
                              ![i].paths = EmptyDict,
                              ![i].processed_urns = {},
                              ![i].nodes = roots(frame[i])]
    /\ Continue(i)
    /\ UNCHANGED <<snowflake, bigquery, other, chain, handler, report, entity_type_fn, drop_dirs>>

\* The synthetic unit of lines 217-222.
hierarchy_workunit(node, path) ==
    as_workunit(MetadataChangeProposalWrapper(node,
        BrowsePathsV2Class([k \in 1..Len(path) |->
            BrowsePathEntryClass(path[k], path[k])])))

\* Variant: a parent without a path counts as a root.
path_of_lenient(f, node) ==
    IF node \notin DOMAIN f.parent_container_map
    THEN [KeyError |-> FALSE, path |-> <<>>]
    ELSE LET parent == f.parent_container_map[node]
         IN  [KeyError |-> FALSE, path |-> Append(GetList(f.paths, parent), parent)]

\* Variant: the parent is put before its own path.
path_of_reversed(f, node) ==
    IF node \notin DOMAIN f.parent_container_map
    THEN [KeyError |-> FALSE, path |-> <<>>]
    ELSE LET parent == f.parent_container_map[node]
         IN  IF parent \notin DOMAIN f.paths
             THEN [KeyError |-> TRUE, path |-> <<>>]
             ELSE [KeyError |-> FALSE, path |-> <<parent>> \o f.paths[parent]]

\* Lines 211-215: the path of a node taken from the work-list; the lookup
\* of the parent's path fails when the parent has none yet.
path_of(f, node) ==
    IF node \notin DOMAIN f.parent_container_map
    THEN [KeyError |-> FALSE, path |-> <<>>]
    ELSE LET parent == f.parent_container_map[node]
         IN  IF parent \notin DOMAIN f.paths
             THEN [KeyError |-> TRUE, path |-> <<>>]
             ELSE [KeyError |-> FALSE, path |-> Append(f.paths[parent], parent)]

\* Variant: the node is read from the work-list and left on it.
auto_browse_path_v2_pop_peek(i) ==
    /\ chain[i] = "auto_browse_path_v2"
    /\ active = i /\ sig \in {"run", "next"}
    /\ frame[i].pc = "pass2"
    /\ frame[i].pops < MaxPops
    /\ \E node \in frame[i].nodes :
        LET f == frame[i]
            nodes == f.nodes \cup Range(GetList(f.children, node))
            looked == path_of(f, node)
        IN  IF looked.KeyError
            THEN /\ frame' = [frame EXCEPT ![i] =
                       [f EXCEPT !.pc = "raised", !.nodes = nodes, !.pops = @ + 1]]
                 /\ Raise(i, "KeyError")
            ELSE LET g == [f EXCEPT !.nodes = nodes, !.pops = @ + 1,
                                    !.paths = Put(@, node, looked.path)]
                 IN  IF node \notin f.ignore_urns
                     THEN /\ frame' = [frame EXCEPT ![i] =
                                [g EXCEPT !.processed_urns = @ \cup {node}]]
                          /\ Yield(i, hierarchy_workunit(node, g.paths[node]), "hierarchy")
                     ELSE /\ frame' = [frame EXCEPT ![i] = g]
                          /\ Continue(i)
    /\ UNCHANGED <<snowflake, bigquery, other, chain, handler, report, entity_type_fn, drop_dirs>>

\* Variant: a node that has a path already is not put on the work-list again.
auto_browse_path_v2_pop_once(i) ==
    /\ chain[i] = "auto_browse_path_v2"
    /\ active = i /\ sig \in {"run", "next"}
    /\ frame[i].pc = "pass2"
    /\ frame[i].pops < MaxPops
    /\ \E node \in frame[i].nodes :
        LET f == frame[i]
            nodes == (f.nodes \ {node})
                        \cup (Range(GetList(f.children, node))
                                  \ (DOMAIN f.paths \cup {node}))
            looked == path_of(f, node)
        IN  IF looked.KeyError
            THEN /\ frame' = [frame EXCEPT ![i] =
                       [f EXCEPT !.pc = "raised", !.nodes = nodes, !.pops = @ + 1]]
                 /\ Raise(i, "KeyError")
            ELSE LET g == [f EXCEPT !.nodes = nodes, !.pops = @ + 1,
                                    !.paths = Put(@, node, looked.path)]
                 IN  IF node \notin f.ignore_urns
                     THEN /\ frame' = [frame EXCEPT ![i] =
                                [g EXCEPT !.processed_urns = @ \cup {node}]]
                          /\ Yield(i, hierarchy_workunit(node, g.paths[node]), "hierarchy")
                     ELSE /\ frame' = [frame EXCEPT ![i] = g]
                          /\ Continue(i)
    /\ UNCHANGED <<snowflake, bigquery, other, chain, handler, report, entity_type_fn, drop_dirs>>

\* One turn of the loop of lines 207-223, for any node the set may pop.
auto_browse_path_v2_pop(i) ==
    /\ chain[i] = "auto_browse_path_v2"
    /\ active = i /\ sig \in {"run", "next"}
    /\ frame[i].pc = "pass2"
    /\ frame[i].pops < MaxPops
    /\ \E node \in frame[i].nodes :
        LET f == frame[i]
            nodes == (f.nodes \ {node}) \cup Range(GetList(f.children, node))
            looked == path_of(f, node)
        IN  IF looked.KeyError
            THEN /\ frame' = [frame EXCEPT ![i] =
                       [f EXCEPT !.pc = "raised", !.nodes = nodes, !.pops = @ + 1]]
                 /\ Raise(i, "KeyError")
            ELSE LET g == [f EXCEPT !.nodes = nodes, !.pops = @ + 1,
                                    !.paths = Put(@, node, looked.path)]
                 IN  IF node \notin f.ignore_urns
                     THEN /\ frame' = [frame EXCEPT ![i] =
                                [g EXCEPT !.processed_urns = @ \cup {node}]]
                          /\ Yield(i, hierarchy_workunit(node, g.paths[node]), "hierarchy")
                     ELSE /\ frame' = [frame EXCEPT ![i] = g]
                          /\ Continue(i)
    /\ UNCHANGED <<snowflake, bigquery, other, chain, handler, report, entity_type_fn, drop_dirs>>

\* Variant: the URNs to skip are not taken out.
auto_browse_path_v2_legacy_unskipped(i) ==
    /\ chain[i] = "auto_browse_path_v2"
    /\ active = i /\ sig \in {"run", "next"}
    /\ frame[i].pc = "pass2"
    /\ frame[i].nodes = {}
    /\ frame' = [frame EXCEPT
           ![i].pc = "legacy",
           ![i].todo = DOMAIN frame[i].legacy_browse_paths \ frame[i].processed_urns]
    /\ Continue(i)
    /\ UNCHANGED <<snowflake, bigquery, other, chain, handler, report, entity_type_fn, drop_dirs>>

\* Variant: the URNs processed in the hierarchy are not taken out.
auto_browse_path_v2_legacy_unprocessed(i) ==
    /\ chain[i] = "auto_browse_path_v2"
    /\ active = i /\ sig \in {"run", "next"}
    /\ frame[i].pc = "pass2"
    /\ frame[i].nodes = {}
    /\ frame' = [frame EXCEPT
           ![i].pc = "legacy",
           ![i].todo = DOMAIN frame[i].legacy_browse_paths \ frame[i].ignore_urns]
    /\ Continue(i)
    /\ UNCHANGED <<snowflake, bigquery, other, chain, handler, report, entity_type_fn, drop_dirs>>

\* Line 227: the work-list is empty; the URNs left for a legacy path.
auto_browse_path_v2_legacy(i) ==
    /\ chain[i] = "auto_browse_path_v2"
    /\ active = i /\ sig \in {"run", "next"}
    /\ frame[i].pc = "pass2"
    /\ frame[i].nodes = {}
    /\ frame' = [frame EXCEPT
           ![i].pc = "legacy",
           ![i].todo = (DOMAIN frame[i].legacy_browse_paths
                           \ frame[i].processed_urns) \ frame[i].ignore_urns]
    /\ Continue(i)
    /\ UNCHANGED <<snowflake, bigquery, other, chain, handler, report, entity_type_fn, drop_dirs>>

\* The synthetic unit of lines 228-233.
legacy_workunit(urn, segments) ==
    as_workunit(MetadataChangeProposalWrapper(urn,
        BrowsePathsV2Class([k \in 1..Len(segments) |->
            BrowsePathEntryClass(segments[k], None)])))

\* The loop of lines 227-233 over a set: any URN left, or return.
auto_browse_path_v2_emit(i) ==
    /\ chain[i] = "auto_browse_path_v2"
    /\ active = i /\ sig \in {"run", "next"}
    /\ frame[i].pc = "legacy"
    /\ IF frame[i].todo = {}
       THEN /\ frame' = [frame EXCEPT ![i].pc = "done"]
            /\ Return(i)
       ELSE \E urn \in frame[i].todo :
            /\ frame' = [frame EXCEPT ![i].todo = @ \ {urn}]
            /\ Yield(i, legacy_workunit(urn, frame[i].legacy_browse_paths[urn]), "legacy")
    /\ UNCHANGED <<snowflake, bigquery, other, chain, handler, report, entity_type_fn, drop_dirs>>

-----------------------------------------------------------------------------
Next ==
    \/ SourceYield
    \/ SourceStop
    \/ SourceRaise
    \/ ConsumerNext
    \/ ConsumerStop
    \/ \E i \in Stages : StagePull(i)
    \/ \E i \in Stages : StagePropagate(i)
    \/ \E i \in Stages : auto_workunit_item(i)
    \/ \E i \in Stages : auto_workunit_stop(i)
    \/ \E i \in Stages : auto_status_aspect_item(i)
    \/ \E i \in Stages : auto_status_aspect_stop(i)
    \/ \E i \in Stages : auto_status_aspect_next(i)
    \/ \E i \in Stages : auto_stale_entity_removal_item(i)
    \/ \E i \in Stages : auto_stale_entity_removal_stop(i)
    \/ \E i \in Stages : auto_stale_entity_removal_next(i)
    \/ \E i \in Stages : auto_workunit_reporter_item(i)
    \/ \E i \in Stages : auto_workunit_reporter_yield(i)
    \/ \E i \in Stages : auto_workunit_reporter_stop(i)
    \/ \E i \in Stages : auto_materialize_referenced_tags_item(i)
    \/ \E i \in Stages : auto_materialize_referenced_tags_stop(i)
    \/ \E i \in Stages : auto_materialize_referenced_tags_next(i)
    \/ \E i \in Stages : auto_browse_path_v2_item(i)
    \/ \E i \in Stages : auto_browse_path_v2_next(i)
    \/ \E i \in Stages : auto_browse_path_v2_stop(i)
    \/ \E i \in Stages : auto_browse_path_v2_pop(i)
    \/ \E i \in Stages : auto_browse_path_v2_legacy(i)
    \/ \E i \in Stages : auto_browse_path_v2_emit(i)

Spec == Init /\ [][Next]_vars

-----------------------------------------------------------------------------
(* Two invocations of one stage, each on its own source and pulled by its  *)
(* own consumer.  One runs at a time; the consumers take turns as they     *)
(* please, and the invocation that does not run is kept in other.          *)

\* Longest stream the source of either invocation produces.
MaxInvocationLen == 2

InvocationChains ==
    { <<"auto_status_aspect">>,
      <<"auto_materialize_referenced_tags">>,
      <<"auto_browse_path_v2">> }

InvocationUnits(c) ==
    CASE c = <<"auto_status_aspect">> ->
           { MetadataWorkUnit(MetadataChangeEventClass(D1, <<DatasetPropertiesClass>>), TRUE),
             MetadataWorkUnit(MetadataChangeProposalWrapper(D1, StatusClass(FALSE)), TRUE),
             MetadataWorkUnit(MetadataChangeProposalWrapper(D2, DatasetPropertiesClass), TRUE) }
      [] c = <<"auto_materialize_referenced_tags">> ->
           { MetadataWorkUnit(MetadataChangeProposalWrapper(D1, GlobalTagsClass(<<T1>>)), TRUE),
             MetadataWorkUnit(MetadataChangeProposalWrapper(T1, TagPropertiesClass), TRUE),
             MetadataWorkUnit(MetadataChangeEventClass(D1,
                 <<DatasetPropertiesClass, GlobalTagsClass(<<T1, T2>>)>>), TRUE) }
      [] c = <<"auto_browse_path_v2">> ->
           { MetadataWorkUnit(MetadataChangeProposalWrapper(P, ContainerPropertiesClass), TRUE),
             MetadataWorkUnit(MetadataChangeProposalWrapper(C1, ContainerClass(P)), TRUE),
             MetadataWorkUnit(MetadataChangeProposalWrapper(D2,
                 BrowsePathsClass(<<Path_a_b_c>>)), TRUE) }

\* The generator of an invocation, not started yet.
Invocation(id, c) ==
    [id |-> id,
     active |-> Len(c) + 1,
     sig |-> "idle",
     hand |-> NoUnit,
     err |-> "",
     frame |-> [i \in 0..Len(c) |->
                    IF i = 0 THEN [pc |-> "loop"] ELSE InitFrame(c[i])],
     yielded |-> [i \in 0..Len(c) |-> <<>>]]

InitTwoInvocations ==
    /\ chain \in InvocationChains
    /\ active = Invocation(1, chain).active
    /\ sig = Invocation(1, chain).sig
    /\ hand = Invocation(1, chain).hand
    /\ err = Invocation(1, chain).err
    /\ frame = Invocation(1, chain).frame
    /\ yielded = Invocation(1, chain).yielded
    /\ other = Invocation(2, chain)
    /\ handler = InitHandler({})
    /\ report = <<>>
    /\ entity_type_fn = "_default_entity_type_fn"
    /\ drop_dirs \in IF chain = <<"auto_browse_path_v2">> THEN DropDirs ELSE {{}}
    /\ bigquery = NoSource
    /\ snowflake = NoConfig

\* The source of the invocation that runs.
InvocationSourceYield ==
    /\ active = 0 /\ sig = "next"
    /\ Len(yielded[0]) < MaxInvocationLen
    /\ \E wu \in InvocationUnits(chain) : Yield(0, wu, "input")
    /\ UNCHANGED <<snowflake, bigquery, other, chain, frame, handler, report, entity_type_fn, drop_dirs>>

\* The sets and maps a stage gathers over its input.
Accumulators ==
    {"all_urns", "status_urns", "referenced_tags", "tags_with_aspects",
     "ignore_urns", "legacy_browse_paths", "container_urns",
     "parent_container_map", "children"}

\* Variant: the sets and maps are one object for all invocations of the
\* stage, so an invocation goes on with what the last one running left.
resume_shared(suspended, running) ==
    [i \in DOMAIN suspended |->
        IF i = 0 THEN suspended[i]
        ELSE [v \in DOMAIN suspended[i] |->
                 IF v \in Accumulators THEN running[i][v] ELSE suspended[i][v]]]

\* The local variables an invocation goes on with when it is resumed: the
\* sets and maps are made in the body of the generator function, so they
\* are its own.
resume(suspended, running) == suspended

\* The consumer of the other invocation takes its turn.
Switch ==
    /\ active = Consumer
    /\ active' = other.active
    /\ sig' = other.sig
    /\ hand' = other.hand
    /\ err' = other.err
    /\ frame' = resume(other.frame, frame)
    /\ yielded' = other.yielded
    /\ other' = [id |-> 3 - other.id, active |-> active, sig |-> sig,
                 hand |-> hand, err |-> err, frame |-> frame,
                 yielded |-> yielded]
    /\ UNCHANGED <<snowflake, bigquery, chain, handler, report, entity_type_fn, drop_dirs>>

NextTwoInvocations ==
    \/ InvocationSourceYield
    \/ SourceStop
    \/ ConsumerNext
    \/ Switch
    \/ \E i \in Stages : StagePull(i)
    \/ \E i \in Stages : auto_status_aspect_item(i)
    \/ \E i \in Stages : auto_status_aspect_stop(i)
    \/ \E i \in Stages : auto_status_aspect_next(i)
    \/ \E i \in Stages : auto_materialize_referenced_tags_item(i)
    \/ \E i \in Stages : auto_materialize_referenced_tags_stop(i)
    \/ \E i \in Stages : auto_materialize_referenced_tags_next(i)
    \/ \E i \in Stages : auto_browse_path_v2_item(i)
    \/ \E i \in Stages : auto_browse_path_v2_next(i)
    \/ \E i \in Stages : auto_browse_path_v2_stop(i)
    \/ \E i \in Stages : auto_browse_path_v2_pop(i)
    \/ \E i \in Stages : auto_browse_path_v2_legacy(i)
    \/ \E i \in Stages : auto_browse_path_v2_emit(i)

SpecTwoInvocations == InitTwoInvocations /\ [][NextTwoInvocations]_vars

-----------------------------------------------------------------------------
(* BigqueryV2Source: the projects to ingest and the tables of a dataset.   *)
(* Names are kept as sequences of pieces: a piece is a run of name         *)
(* characters, one separator character, or a run of digits (a shard id).   *)

\* Longest listing the BigQuery API returns, of projects or of tables.
MaxListing == 3

BigqueryProject(id, name) == [id |-> id, name |-> name]

\* AllowDenyPattern.allowed with allow-all and the given deny patterns, each
\* pattern matching exactly one project id.
allowed(pattern, id) == id \notin pattern.deny

ProjectIdsConfigured == {<<>>, <<"test-1">>, <<"test-1", "test-2">>,
                         <<"test-2", "test-1">>}
ProjectIdConfigured == {None, "test-1", "test-3"}
ProjectIdPatterns == {[deny |-> {}], [deny |-> {"test-1"}],
                      [deny |-> {"test-1", "test-2"}]}
ListedProjects == {BigqueryProject("test-1", "one"),
                   BigqueryProject("test-2", "two")}

\* The shard ids, in the order of Python's comparison of the strings.
ShardOrder == <<"20210101", "20220101", "20220102", "20220103">>
ShardRank(shard) == CHOOSE k \in 1..Len(ShardOrder) : ShardOrder[k] = shard
\* stored_shard < shard, on strings of digits of one length
StrLess(a, b) == ShardRank(a) < ShardRank(b)
Separators == {"_", "$"}

BigqueryTableIdentifier(project_id, dataset, table) ==
    [project_id |-> project_id, dataset |-> dataset, table |-> table]

\* BigqueryTableIdentifier.get_table_and_shard, with the default
\* sharded_table_pattern ((.+)[_$])?(\d{4,10})$ : the name ends in a shard id
\* that is the whole name or follows a separator; "table" is <<>> for None.
get_table_and_shard(table_name) ==
    LET n == Len(table_name)
    IN  IF /\ n >= 1
           /\ table_name[n] \in Range(ShardOrder)
           /\ \/ n = 1
              \/ n >= 3 /\ table_name[n - 1] \in Separators
        THEN [table |-> SubSeq(table_name, 1, n - 2), shard |-> table_name[n]]
        ELSE [table |-> table_name, shard |-> None]

\* BigqueryTableIdentifier.get_table_name: a table named by its shard id
\* alone takes the name of its dataset.
get_table_name(table_identifier) ==
    LET table == get_table_and_shard(table_identifier.table).table
    IN  table_identifier.project_id \o <<".">> \o table_identifier.dataset
            \o <<".">>
            \o (IF table = <<>> THEN table_identifier.dataset ELSE table)

\* BigqueryTableIdentifier.raw_table_name
raw_table_name(table_identifier) ==
    table_identifier.project_id \o <<".">> \o table_identifier.dataset
        \o <<".">> \o table_identifier.table

\* str(table_identifier)
BigqueryTableIdentifier_str(table_identifier) ==
    get_table_name(table_identifier)

\* str.startswith
startswith(str, prefix) ==
    /\ Len(prefix) <= Len(str)
    /\ SubSeq(str, 1, Len(prefix)) = prefix

\* A Python dict that keeps the order in which its keys were first set, as
\* the sequence of its items.
OrderedKeys(d) == [k \in 1..Len(d) |-> d[k].key]
OrderedValues(d) == [k \in 1..Len(d) |-> d[k].value]
OrderedHas(d, key) == \E k \in 1..Len(d) : d[k].key = key
OrderedGet(d, key) == d[CHOOSE k \in 1..Len(d) : d[k].key = key].value
OrderedSet(d, key, value) ==
    IF OrderedHas(d, key)
    THEN [k \in 1..Len(d) |->
              IF d[k].key = key THEN [key |-> key, value |-> value] ELSE d[k]]
    ELSE Append(d, [key |-> key, value |-> value])
RECURSIVE OrderedUpdate(_, _)
\* d.update(items), items in their order
OrderedUpdate(d, items) ==
    IF items = <<>> THEN d
    ELSE OrderedUpdate(OrderedSet(d, items[1].key, items[1].value),
                       SubSeq(items, 2, Len(items)))

\* The tables conn.list_tables can list: a plain table, three shards of one
\* table, two tables named by a shard id alone, and a shard of a table named
\* like the dataset.
TableIds == { <<"test-table">>,
              <<"test-sharded-table", "_", "20210101">>,
              <<"test-sharded-table", "_", "20220101">>,
              <<"test-sharded-table", "_", "20220102">>,
              <<"20220102">>,
              <<"20220103">>,
              <<"d", "$", "20220102">> }
TableListItem(table_id) == [table_id |-> table_id]

\* Sequences of distinct elements of S, at most n long.
Listings(S, n) ==
    UNION {{s \in [1..m -> S] : \A a, b \in 1..m : a # b => s[a] # s[b]} :
            m \in 0..n}

BigqueryConfigs ==
    [project_ids : ProjectIdsConfigured,
     project_id : ProjectIdConfigured,
     project_id_pattern : ProjectIdPatterns,
     temp_table_dataset_prefix : {<<"_">>},
     profiling_enabled : {FALSE},
     number_of_datasets_process_in_batch : {2},
     number_of_datasets_process_in_batch_if_profiling_enabled : {1}]
    \cup
    [project_ids : {<<>>},
     project_id : {None},
     project_id_pattern : {[deny |-> {}]},
     temp_table_dataset_prefix : {<<"_">>, <<"p", ".", "_">>},
     profiling_enabled : BOOLEAN,
     number_of_datasets_process_in_batch : {2},
     number_of_datasets_process_in_batch_if_profiling_enabled : {1}]

EmptyReport == [failures |-> <<>>, dropped |-> <<>>, errors_logged |-> 0]
ApiCall(name, tables) == [name |-> name, tables |-> tables]

InitBigquery ==
    /\ chain = <<>>
    /\ active = 0
    /\ sig = "idle"
    /\ hand = NoUnit
    /\ err = ""
    /\ frame = <<>>
    /\ yielded = <<>>
    /\ handler = InitHandler({})
    /\ report = <<>>
    /\ entity_type_fn = "_default_entity_type_fn"
    /\ drop_dirs = {}
    /\ other = NoInvocation
    /\ snowflake = NoConfig
    /\ \E config \in BigqueryConfigs :
       \/ \E raises \in BOOLEAN, projects \in Listings(ListedProjects, MaxListing) :
            /\ raises => projects = <<>>
            /\ config.temp_table_dataset_prefix = <<"_">>
            /\ ~config.profiling_enabled
            /\ bigquery = [method |-> "_get_projects",
                           pc |-> "_get_projects",
                           config |-> config,
                           api |-> [raises |-> raises, projects |-> projects,
                                    tables |-> <<>>],
                           calls |-> <<>>,
                           report |-> EmptyReport,
                           frame |-> [projects |-> <<>>, k |-> 0],
                           result |-> <<>>]
       \/ \E tables \in Listings(TableIds, MaxListing),
             dataset_name \in {<<"d">>, <<"_", "d">>} :
            /\ config.project_ids = <<>>
            /\ config.project_id = None
            /\ bigquery = [method |-> "get_tables_for_dataset",
                           pc |-> "get_tables_for_dataset",
                           config |-> config,
                           api |-> [raises |-> FALSE, projects |-> <<>>,
                                    tables |-> [k \in 1..Len(tables) |->
                                                  TableListItem(tables[k])]],
                           calls |-> <<>>,
                           report |-> EmptyReport,
                           frame |-> [project_id |-> <<"p">>,
                                      dataset_name |-> dataset_name],
                           result |-> <<>>]

\* The configured ids go through project_id_pattern like the listed ones.
_get_projects_filtered ==
    /\ bigquery.pc = "_get_projects"
    /\ LET config == bigquery.config
       IN  IF config.project_ids # <<>> \/ config.project_id # None
           THEN LET project_ids == IF config.project_ids # <<>>
                                   THEN config.project_ids
                                   ELSE <<config.project_id>>
                    kept == SelectSeq(project_ids,
                        LAMBDA id : allowed(config.project_id_pattern, id))
                IN  bigquery' = [bigquery EXCEPT
                        !.pc = "returned",
                        !.result = [k \in 1..Len(kept) |->
                            BigqueryProject(kept[k], kept[k])]]
           ELSE bigquery' = [bigquery EXCEPT !.pc = "_get_project_list"]
    /\ UNCHANGED pipeline_vars

\* _get_projects
_get_projects ==
    /\ bigquery.pc = "_get_projects"
    /\ LET config == bigquery.config
       IN  IF config.project_ids # <<>> \/ config.project_id # None
           THEN LET project_ids == IF config.project_ids # <<>>
                                   THEN config.project_ids
                                   ELSE <<config.project_id>>
                IN  bigquery' = [bigquery EXCEPT
                        !.pc = "returned",
                        !.result = [k \in 1..Len(project_ids) |->
                            BigqueryProject(project_ids[k], project_ids[k])]]
           ELSE bigquery' = [bigquery EXCEPT !.pc = "_get_project_list"]
    /\ UNCHANGED pipeline_vars

\* _get_project_list, the call of the listing API and its except clause
_get_project_list_try ==
    /\ bigquery.pc = "_get_project_list"
    /\ bigquery' = [bigquery EXCEPT
            !.pc = "if not projects",
            !.calls = Append(@, ApiCall("get_projects", <<>>)),
            !.report.errors_logged =
                IF bigquery.api.raises THEN @ + 1 ELSE @,
            !.frame = [projects |-> IF bigquery.api.raises THEN <<>>
                                    ELSE bigquery.api.projects,
                       k |-> 1]]
    /\ UNCHANGED pipeline_vars

\* A failure is reported only when the listing raised.
_get_project_list_check_raised_only ==
    /\ bigquery.pc = "if not projects"
    /\ IF bigquery.frame.projects = <<>>
       THEN bigquery' = [bigquery EXCEPT
                !.pc = "returned",
                !.report.failures = IF bigquery.api.raises
                                    THEN Append(@, "metadata-extraction")
                                    ELSE @]
       ELSE bigquery' = [bigquery EXCEPT !.pc = "for project in projects"]
    /\ UNCHANGED pipeline_vars

\* _get_project_list, "if not projects"
_get_project_list_check ==
    /\ bigquery.pc = "if not projects"
    /\ IF bigquery.frame.projects = <<>>
       THEN bigquery' = [bigquery EXCEPT
                !.pc = "returned",
                !.report.failures = Append(@, "metadata-extraction")]
       ELSE bigquery' = [bigquery EXCEPT !.pc = "for project in projects"]
    /\ UNCHANGED pipeline_vars

\* _get_project_list, one turn of "for project in projects"; the list that
\* _get_projects makes of the projects yielded is kept in result
_get_project_list_for ==
    /\ bigquery.pc = "for project in projects"
    /\ LET f == bigquery.frame
           project == f.projects[f.k]
       IN  bigquery' = [bigquery EXCEPT
               !.pc = IF f.k = Len(f.projects) THEN "returned" ELSE @,
               !.frame.k = @ + 1,
               !.result =
                   IF allowed(bigquery.config.project_id_pattern, project.id)
                   THEN Append(@, project) ELSE @,
               !.report.dropped =
                   IF allowed(bigquery.config.project_id_pattern, project.id)
                   THEN @ ELSE Append(@, project.id)]
    /\ UNCHANGED pipeline_vars

\* get_tables_for_dataset up to its call of get_core_table_details, and
\* get_core_table_details up to its call of conn.list_tables
get_tables_for_dataset ==
    /\ bigquery.pc = "get_tables_for_dataset"
    /\ LET config == bigquery.config
       IN  bigquery' = [bigquery EXCEPT
               !.pc = "for table in list_tables",
               !.calls = Append(@, ApiCall("list_tables", <<>>)),
               !.frame = [project_id |-> bigquery.frame.project_id,
                          dataset_name |-> bigquery.frame.dataset_name,
                          max_batch_size |->
                              IF ~config.profiling_enabled
                              THEN config.number_of_datasets_process_in_batch
                              ELSE config.number_of_datasets_process_in_batch_if_profiling_enabled,
                          table_items |-> <<>>,
                          sharded_tables |-> <<>>,
                          items_to_get |-> <<>>,
                          k |-> 1]]
    /\ UNCHANGED pipeline_vars

\* The latest shard is the one listed last.
latest_shard_last_listed(f, table_name, table, shard) ==
    OrderedSet(f.sharded_tables, table_name, table)

\* get_core_table_details, the branch of a sharded table: sharded_tables
\* after it
latest_shard(f, table_name, table, shard) ==
    IF ~OrderedHas(f.sharded_tables, table_name)
    THEN OrderedSet(f.sharded_tables, table_name, table)
    ELSE LET stored_table_identifier ==
                 BigqueryTableIdentifier(f.project_id, f.dataset_name,
                     OrderedGet(f.sharded_tables, table_name).table_id)
             stored_shard ==
                 get_table_and_shard(stored_table_identifier.table).shard
         IN  IF StrLess(stored_shard, shard)
             THEN OrderedSet(f.sharded_tables, table_name, table)
             ELSE f.sharded_tables

\* get_core_table_details, one turn of "for table in conn.list_tables(...)"
get_core_table_details_for ==
    /\ bigquery.pc = "for table in list_tables"
    /\ bigquery.frame.k <= Len(bigquery.api.tables)
    /\ LET f == bigquery.frame
           table == bigquery.api.tables[f.k]
           table_identifier ==
               BigqueryTableIdentifier(f.project_id, f.dataset_name,
                                       table.table_id)
           shard == get_table_and_shard(table_identifier.table).shard
           pieces == split(get_table_name(table_identifier), ".")
           table_name == pieces[Len(pieces)]
       IN  IF shard # None
           THEN bigquery' = [bigquery EXCEPT
                    !.frame.k = @ + 1,
                    !.frame.sharded_tables =
                        latest_shard(f, table_name, table, shard)]
           ELSE IF startswith(BigqueryTableIdentifier_str(table_identifier),
                              bigquery.config.temp_table_dataset_prefix)
           THEN bigquery' = [bigquery EXCEPT
                    !.frame.k = @ + 1,
                    !.report.dropped =
                        Append(@, raw_table_name(table_identifier))]
           ELSE bigquery' = [bigquery EXCEPT
                    !.frame.k = @ + 1,
                    !.frame.table_items =
                        OrderedSet(@, table.table_id, table)]
    /\ UNCHANGED pipeline_vars

\* get_core_table_details, after the loop: the latest shards join the
\* tables, and get_tables_for_dataset goes on with the result
get_core_table_details_return ==
    /\ bigquery.pc = "for table in list_tables"
    /\ bigquery.frame.k > Len(bigquery.api.tables)
    /\ LET f == bigquery.frame
           latest == OrderedValues(f.sharded_tables)
       IN  bigquery' = [bigquery EXCEPT
               !.pc = "for table_item in table_items",
               !.frame.k = 1,
               !.frame.table_items =
                   OrderedUpdate(@, [k \in 1..Len(latest) |->
                       [key |-> latest[k].table_id, value |-> latest[k]]])]
    /\ UNCHANGED pipeline_vars

\* The data dictionary is asked for the tables of items_to_get.
request(items_to_get) ==
    ApiCall("get_tables_for_dataset", OrderedKeys(items_to_get))

\* Batches that are flushed one table late.
batch_flushed_late(f, table_item) ==
    LET items_to_get == OrderedSet(f.items_to_get, table_item,
                                   OrderedGet(f.table_items, table_item))
    IN  IF Len(items_to_get) % (f.max_batch_size + 1) = 0
        THEN [calls |-> <<request(items_to_get)>>, items_to_get |-> <<>>]
        ELSE [calls |-> <<>>, items_to_get |-> items_to_get]

\* get_tables_for_dataset, the body of "for table_item in table_items":
\* the requests made and items_to_get after it
batch(f, table_item) ==
    LET items_to_get == OrderedSet(f.items_to_get, table_item,
                                   OrderedGet(f.table_items, table_item))
    IN  IF Len(items_to_get) % f.max_batch_size = 0
        THEN [calls |-> <<request(items_to_get)>>, items_to_get |-> <<>>]
        ELSE [calls |-> <<>>, items_to_get |-> items_to_get]

\* get_tables_for_dataset, one turn of "for table_item in table_items.keys()"
get_tables_for_dataset_for ==
    /\ bigquery.pc = "for table_item in table_items"
    /\ bigquery.frame.k <= Len(bigquery.frame.table_items)
    /\ LET f == bigquery.frame
           table_item == OrderedKeys(f.table_items)[f.k]
           after == batch(f, table_item)
       IN  bigquery' = [bigquery EXCEPT
               !.frame.k = @ + 1,
               !.frame.items_to_get = after.items_to_get,
               !.calls = @ \o after.calls]
    /\ UNCHANGED pipeline_vars

\* get_tables_for_dataset, "if items_to_get" after the loop, and the return
get_tables_for_dataset_rest ==
    /\ bigquery.pc = "for table_item in table_items"
    /\ bigquery.frame.k > Len(bigquery.frame.table_items)
    /\ LET f == bigquery.frame
       IN  bigquery' = [bigquery EXCEPT
               !.pc = "returned",
               !.calls = IF f.items_to_get # <<>>
                         THEN Append(@, request(f.items_to_get)) ELSE @]
    /\ UNCHANGED pipeline_vars

NextBigquery ==
    \/ _get_projects
    \/ _get_project_list_try
    \/ _get_project_list_check
    \/ _get_project_list_for
    \/ get_tables_for_dataset
    \/ get_core_table_details_for
    \/ get_core_table_details_return
    \/ get_tables_for_dataset_for
    \/ get_tables_for_dataset_rest

SpecBigquery == InitBigquery /\ [][NextBigquery]_vars

-----------------------------------------------------------------------------
(* BigqueryV2Source.get_workunits_internal: one ingestion run.  The        *)
(* generator and the generators it delegates to are one frame with a       *)
(* position; a step runs it to its next yield or to a loop head.           *)

RunProjectIds == {<<"p">>, <<"q">>}
RunDatasets == <<"d", "f", "e">>

\* What get_datasets_for_project_id answers for a project: an exception, no
\* dataset, or the datasets d, f and e.
DatasetAnswers == {"raises", "none", "all"}

\* The tables get_tables_for_dataset returns and conn.list_tables lists for
\* a dataset, and the views get_views_for_dataset returns.
TablesOf(dataset_name) ==
    IF dataset_name = "d"
    THEN << <<"test-table">>, <<"test-sharded-table", "_", "20220102">>,
            <<"denied-table">> >>
    ELSE << <<"other-table">> >>
ViewsOf(dataset_name) ==
    IF dataset_name = "e" THEN << <<"test-view">>, <<"denied-view">> >> ELSE <<>>

\* str(BigQueryTableRef(identifier).get_sanitized_table_ref()): the shard id
\* is taken off the table's name.
table_ref_of(project_id, dataset_name, table) ==
    get_table_name(BigqueryTableIdentifier(project_id, <<dataset_name>>, table))

RunRawName(project_id, dataset_name, table) ==
    raw_table_name(BigqueryTableIdentifier(project_id, <<dataset_name>>, table))

\* The points of _process_schema at which the API can fail for a dataset.
FailurePoints ==
    {[dataset |-> "", at |-> "never"],
     [dataset |-> "d", at |-> "get_columns_for_dataset"],
     [dataset |-> "d", at |-> "gen_table_dataset_workunits"],
     [dataset |-> "e", at |-> "get_views_for_dataset"]}

\* What calculate_lineage_for_project answers: table refs with their
\* upstream refs, the same for every project.
LineageAnswers ==
    { <<>>,
      << [key |-> <<"p", ".", "d", ".", "test-sharded-table">>,
          value |-> {<<"p", ".", "d", ".", "test-table">>}],
         [key |-> <<"p", ".", "d", ".", "denied-table">>,
          value |-> {<<"p", ".", "d", ".", "test-table">>}],
         [key |-> <<"p", ".", "z", ".", "unseen-table">>,
          value |-> {<<"p", ".", "d", ".", "test-table">>}],
         [key |-> <<"q", ".", "e", ".", "other-table">>,
          value |-> {}] >> }

RunConfigs ==
    [include_tables : BOOLEAN,
     include_views : BOOLEAN,
     include_table_lineage : BOOLEAN,
     include_usage_statistics : BOOLEAN,
     lineage_parse_view_ddl : {TRUE},
     store_last_usage_extraction_timestamp : {FALSE},
     store_last_lineage_extraction_timestamp : {FALSE},
     profiling_enabled : {FALSE},
     dataset_pattern : {[deny |-> {"f"}]},
     table_pattern : {[deny |-> {<<"p", ".", "d", ".", "denied-table">>,
                                 <<"q", ".", "d", ".", "denied-table">>}]},
     view_pattern : {[deny |-> {<<"p", ".", "e", ".", "denied-view">>,
                                <<"q", ".", "e", ".", "denied-view">>}]}]
    \cup
    [include_tables : {TRUE},
     include_views : {TRUE},
     include_table_lineage : {TRUE},
     include_usage_statistics : {TRUE},
     lineage_parse_view_ddl : {FALSE},
     store_last_usage_extraction_timestamp : BOOLEAN,
     store_last_lineage_extraction_timestamp : BOOLEAN,
     profiling_enabled : BOOLEAN,
     dataset_pattern : {[deny |-> {"f"}]},
     table_pattern : {[deny |-> {<<"p", ".", "d", ".", "denied-table">>,
                                 <<"q", ".", "d", ".", "denied-table">>}]},
     view_pattern : {[deny |-> {<<"p", ".", "e", ".", "denied-view">>,
                                <<"q", ".", "e", ".", "denied-view">>}]}]

RunUnit(kind, id) == [kind |-> kind, id |-> id]
RunCall(name, arg) == [name |-> name, arg |-> arg]
RunFailure(key, id) == [key |-> key, id |-> id]

InitRun ==
    /\ chain = <<>>
    /\ active = 0
    /\ sig = "idle"
    /\ hand = NoUnit
    /\ err = ""
    /\ frame = <<>>
    /\ yielded = <<>>
    /\ handler = InitHandler({})
    /\ report = <<>>
    /\ entity_type_fn = "_default_entity_type_fn"
    /\ drop_dirs = {}
    /\ other = NoInvocation
    /\ snowflake = NoConfig
    /\ \E config \in RunConfigs,
          projects \in Listings(RunProjectIds, MaxListing),
          datasets \in [RunProjectIds -> DatasetAnswers],
          fails \in FailurePoints,
          lineage \in LineageAnswers,
          usage_raises \in BOOLEAN,
          should_skip_this_run \in BOOLEAN :
        /\ \A id \in RunProjectIds \ Range(projects) : datasets[id] = "all"
        /\ should_skip_this_run =>
               \/ config.store_last_usage_extraction_timestamp
               \/ config.store_last_lineage_extraction_timestamp
        /\ usage_raises => config.include_usage_statistics /\ fails.at = "never"
        /\ lineage # <<>> => config.include_table_lineage
        /\ bigquery = [method |-> "get_workunits_internal",
                       pc |-> "get_workunits_internal",
                       config |-> config,
                       api |-> [projects |-> projects, datasets |-> datasets,
                                fails |-> fails, lineage |-> lineage,
                                usage_raises |-> usage_raises,
                                should_skip_this_run |-> should_skip_this_run],
                       calls |-> <<>>,
                       report |-> [failures |-> <<>>, dropped |-> <<>>,
                                   warnings |-> <<>>],
                       table_refs |-> {},
                       view_upstream_tables |-> <<>>,
                       frame |-> [projects |-> <<>>, k |-> 0, project_id |-> <<>>,
                                  datasets |-> <<>>, d |-> 0,
                                  db_tables |-> <<>>, items |-> <<>>, t |-> 0,
                                  lineage |-> <<>>, l |-> 0],
                       out |-> <<>>,
                       raised |-> ""]

\* The generator of the run yields a unit to its consumer.
RunYield(b, kind, id) == [b EXCEPT !.out = Append(@, RunUnit(kind, id))]

\* Variant: usage and lineage run also when no project was found.
get_workunits_internal_without_projects ==
    /\ bigquery.method = "get_workunits_internal"
    /\ bigquery.pc = "get_workunits_internal"
    /\ bigquery' = [bigquery EXCEPT
            !.pc = "for project_id",
            !.calls = Append(@, RunCall("_get_projects", <<>>)),
            !.frame.projects = bigquery.api.projects,
            !.frame.k = 1]
    /\ UNCHANGED pipeline_vars

\* get_workunits_internal up to the loop over the projects
get_workunits_internal ==
    /\ bigquery.method = "get_workunits_internal"
    /\ bigquery.pc = "get_workunits_internal"
    /\ LET projects == bigquery.api.projects
       IN  bigquery' = [bigquery EXCEPT
               !.pc = IF projects = <<>> THEN "returned" ELSE "for project_id",
               !.calls = Append(@, RunCall("_get_projects", <<>>)),
               !.frame.projects = projects,
               !.frame.k = 1]
    /\ UNCHANGED pipeline_vars

\* The loop over the projects: the next project's stage is set and
\* _process_project yields the project's container; after the last project
\* the run goes on to usage.
get_workunits_internal_for ==
    /\ bigquery.method = "get_workunits_internal"
    /\ bigquery.pc = "for project_id"
    /\ LET f == bigquery.frame
       IN  IF f.k > Len(f.projects)
           THEN bigquery' = [bigquery EXCEPT !.pc = "_should_ingest_usage"]
           ELSE LET project_id == f.projects[f.k]
                IN  bigquery' = [RunYield(bigquery, "project container", project_id)
                        EXCEPT
                        !.pc = "get_datasets_for_project_id",
                        !.calls = Append(@, RunCall("set_ingestion_stage",
                                      <<project_id, "Metadata Extraction">>)),
                        !.frame.project_id = project_id,
                        !.frame.db_tables = <<>>]
    /\ UNCHANGED pipeline_vars

\* _process_project from the listing of the datasets to the loop over them
_process_project ==
    /\ bigquery.method = "get_workunits_internal"
    /\ bigquery.pc = "get_datasets_for_project_id"
    /\ LET f == bigquery.frame
           answer == bigquery.api.datasets[f.project_id]
       IN  IF answer = "raises"
           THEN bigquery' = [bigquery EXCEPT
                    !.pc = "for project_id",
                    !.report.failures = Append(@,
                        RunFailure("metadata-extraction", f.project_id)),
                    !.frame.k = @ + 1]
           ELSE IF answer = "none"
           THEN bigquery' = [bigquery EXCEPT
                    !.pc = "for project_id",
                    !.frame.k = @ + 1]
           ELSE bigquery' = [bigquery EXCEPT
                    !.pc = "for bigquery_dataset",
                    !.frame.datasets = RunDatasets,
                    !.frame.d = 1]
    /\ UNCHANGED pipeline_vars

\* Variant: a dataset that failed ends its project.
process_schema_except_return(b) ==
    [b EXCEPT
        !.pc = "for project_id",
        !.report.failures = Append(@, RunFailure("metadata-extraction",
            b.frame.project_id \o <<".", b.frame.datasets[b.frame.d]>>)),
        !.frame.k = @ + 1]

\* The except clause around _process_schema: the failure is reported and
\* the loop goes on with the next dataset.
process_schema_except(b) ==
    [b EXCEPT
        !.pc = "for bigquery_dataset",
        !.report.failures = Append(@, RunFailure("metadata-extraction",
            b.frame.project_id \o <<".", b.frame.datasets[b.frame.d]>>)),
        !.frame.d = @ + 1]

\* The API fails at this point of _process_schema for the dataset at hand.
RunFails(b, at) ==
    b.api.fails = [dataset |-> b.frame.datasets[b.frame.d], at |-> at]

\* The loop over the datasets: a dataset the pattern drops is reported,
\* _process_schema yields the container of the next one, and after the last
\* one the profiler runs if it is enabled.
_process_project_for ==
    /\ bigquery.method = "get_workunits_internal"
    /\ bigquery.pc = "for bigquery_dataset"
    /\ LET f == bigquery.frame
       IN  IF f.d > Len(f.datasets)
           THEN IF bigquery.config.profiling_enabled
                THEN bigquery' = [RunYield(bigquery, "profile", f.project_id)
                         EXCEPT
                         !.pc = "for project_id",
                         !.calls = Append(Append(@,
                             RunCall("set_ingestion_stage", <<f.project_id, "Profiling">>)),
                             RunCall("profiler.get_workunits", f.db_tables)),
                         !.frame.k = @ + 1]
                ELSE bigquery' = [bigquery EXCEPT
                         !.pc = "for project_id",
                         !.frame.k = @ + 1]
           ELSE LET dataset_name == f.datasets[f.d]
                IN  IF ~allowed(bigquery.config.dataset_pattern, dataset_name)
                    THEN bigquery' = [bigquery EXCEPT
                             !.report.dropped = Append(@, <<dataset_name, ".", "*">>),
                             !.frame.d = @ + 1]
                    ELSE bigquery' = [RunYield(bigquery, "dataset container",
                                          f.project_id \o <<".", dataset_name>>)
                             EXCEPT !.pc = "get_columns_for_dataset"]
    /\ UNCHANGED pipeline_vars

RECURSIVE list_tables_refs(_, _, _, _)
\* The loop over conn.list_tables of _process_schema: the refs of the tables
\* the pattern allows, the others dropped.
list_tables_refs(b, project_id, dataset_name, table_ids) ==
    IF table_ids = <<>> THEN b
    ELSE LET raw == RunRawName(project_id, dataset_name, Head(table_ids))
             c == IF ~allowed(b.config.table_pattern, raw)
                  THEN [b EXCEPT !.report.dropped = Append(@, raw)]
                  ELSE [b EXCEPT !.table_refs = @ \cup
                            {table_ref_of(project_id, dataset_name, Head(table_ids))}]
         IN  list_tables_refs(c, project_id, dataset_name, Tail(table_ids))

\* _process_schema after the container: the columns and the tables
_process_schema ==
    /\ bigquery.method = "get_workunits_internal"
    /\ bigquery.pc = "get_columns_for_dataset"
    /\ LET f == bigquery.frame
           config == bigquery.config
           dataset_name == f.datasets[f.d]
       IN  IF /\ config.include_tables \/ config.include_views
              /\ RunFails(bigquery, "get_columns_for_dataset")
           THEN bigquery' = process_schema_except(bigquery)
           ELSE IF config.include_tables
           THEN bigquery' = [bigquery EXCEPT
                    !.pc = "for table",
                    !.frame.db_tables = OrderedSet(@, dataset_name, TablesOf(dataset_name)),
                    !.frame.items = TablesOf(dataset_name),
                    !.frame.t = 1]
           ELSE IF config.include_table_lineage \/ config.include_usage_statistics
           THEN bigquery' = [list_tables_refs(bigquery, f.project_id, dataset_name,
                                              TablesOf(dataset_name))
                    EXCEPT !.pc = "get_views_for_dataset"]
           ELSE bigquery' = [bigquery EXCEPT !.pc = "get_views_for_dataset"]
    /\ UNCHANGED pipeline_vars

\* The loop over the tables with _process_table: a table the pattern drops
\* is reported, the others are added to table_refs and yield their unit.
_process_table ==
    /\ bigquery.method = "get_workunits_internal"
    /\ bigquery.pc = "for table"
    /\ LET f == bigquery.frame
           config == bigquery.config
           dataset_name == f.datasets[f.d]
       IN  IF f.t > Len(f.items)
           THEN bigquery' = [bigquery EXCEPT !.pc = "get_views_for_dataset"]
           ELSE LET table == f.items[f.t]
                    raw == RunRawName(f.project_id, dataset_name, table)
                    b == IF config.include_table_lineage \/ config.include_usage_statistics
                         THEN [bigquery EXCEPT !.table_refs = @ \cup
                                   {table_ref_of(f.project_id, dataset_name, table)}]
                         ELSE bigquery
                IN  IF ~allowed(config.table_pattern, raw)
                    THEN bigquery' = [bigquery EXCEPT
                             !.report.dropped = Append(@, raw),
                             !.frame.t = @ + 1]
                    ELSE IF f.t > 1 /\ RunFails(bigquery, "gen_table_dataset_workunits")
                    THEN bigquery' = process_schema_except(b)
                    ELSE bigquery' = [RunYield(b, "table", raw)
                             EXCEPT !.frame.t = @ + 1]
    /\ UNCHANGED pipeline_vars

\* _process_schema, the views: from the listing to the loop over them
_process_schema_views ==
    /\ bigquery.method = "get_workunits_internal"
    /\ bigquery.pc = "get_views_for_dataset"
    /\ LET f == bigquery.frame
           dataset_name == f.datasets[f.d]
       IN  IF ~bigquery.config.include_views
           THEN bigquery' = [bigquery EXCEPT
                    !.pc = "for bigquery_dataset",
                    !.frame.d = @ + 1]
           ELSE IF RunFails(bigquery, "get_views_for_dataset")
           THEN bigquery' = process_schema_except(bigquery)
           ELSE bigquery' = [bigquery EXCEPT
                    !.pc = "for view",
                    !.frame.items = ViewsOf(dataset_name),
                    !.frame.t = 1]
    /\ UNCHANGED pipeline_vars

\* What parse_view_lineage finds in the definition of a view.
parse_view_lineage(project_id, dataset_name, view) ==
    << BigqueryTableIdentifier(project_id, <<dataset_name>>, <<"other-table">>) >>

\* The loop over the views with _process_view
_process_view ==
    /\ bigquery.method = "get_workunits_internal"
    /\ bigquery.pc = "for view"
    /\ LET f == bigquery.frame
           config == bigquery.config
           dataset_name == f.datasets[f.d]
       IN  IF f.t > Len(f.items)
           THEN bigquery' = [bigquery EXCEPT
                    !.pc = "for bigquery_dataset",
                    !.frame.d = @ + 1]
           ELSE LET view == f.items[f.t]
                    raw == RunRawName(f.project_id, dataset_name, view)
                    table_ref == table_ref_of(f.project_id, dataset_name, view)
                    upstream_tables == parse_view_lineage(f.project_id, dataset_name, view)
                    of_project == IF OrderedHas(bigquery.view_upstream_tables, f.project_id)
                                  THEN OrderedGet(bigquery.view_upstream_tables, f.project_id)
                                  ELSE <<>>
                    b == IF config.include_table_lineage \/ config.include_usage_statistics
                         THEN [bigquery EXCEPT
                                  !.table_refs = @ \cup {table_ref},
                                  !.view_upstream_tables =
                                      IF config.lineage_parse_view_ddl
                                      THEN OrderedSet(@, f.project_id,
                                               OrderedSet(of_project, table_ref,
                                                   {get_table_name(upstream_tables[n]) :
                                                        n \in 1..Len(upstream_tables)}))
                                      ELSE @]
                         ELSE bigquery
                IN  IF ~allowed(config.view_pattern, raw)
                    THEN bigquery' = [bigquery EXCEPT
                             !.report.dropped = Append(@, raw),
                             !.frame.t = @ + 1]
                    ELSE bigquery' = [RunYield(b, "view", raw)
                             EXCEPT !.frame.t = @ + 1]
    /\ UNCHANGED pipeline_vars

\* _should_ingest_usage and _should_ingest_lineage: the flag of the config,
\* and the answer of the redundant-run handler when the timestamp is stored.
should_ingest(b, include, store_last, key) ==
    IF ~include THEN [go |-> FALSE, b |-> b]
    ELSE IF store_last /\ b.api.should_skip_this_run
    THEN [go |-> FALSE, b |-> [b EXCEPT !.report.warnings = Append(@, key)]]
    ELSE IF store_last
    THEN [go |-> TRUE,
          b |-> [b EXCEPT !.calls = Append(@, RunCall("update_state", key))]]
    ELSE [go |-> TRUE, b |-> b]

\* Usage: usage_extractor.run is handed the project ids and table_refs and
\* yields its unit, or raises.
get_workunits_internal_usage ==
    /\ bigquery.method = "get_workunits_internal"
    /\ bigquery.pc = "_should_ingest_usage"
    /\ LET config == bigquery.config
           should == should_ingest(bigquery, config.include_usage_statistics,
                         config.store_last_usage_extraction_timestamp,
                         "usage-extraction")
           b == [should.b EXCEPT !.calls = Append(@,
                     RunCall("usage_extractor.run",
                             [projects |-> bigquery.frame.projects,
                              table_refs |-> bigquery.table_refs]))]
       IN  IF ~should.go
           THEN bigquery' = [should.b EXCEPT !.pc = "_should_ingest_lineage"]
           ELSE IF bigquery.api.usage_raises
           THEN bigquery' = [b EXCEPT !.pc = "raised", !.raised = "usage_extractor.run"]
           ELSE bigquery' = [RunYield(b, "usage", <<>>) EXCEPT !.pc = "usage_extractor.run"]
    /\ UNCHANGED pipeline_vars

\* usage_extractor.run is resumed and returns; lineage begins if it is to
\* be ingested.
get_workunits_internal_lineage ==
    /\ bigquery.method = "get_workunits_internal"
    /\ bigquery.pc \in {"usage_extractor.run", "_should_ingest_lineage"}
    /\ LET config == bigquery.config
           returned == IF bigquery.pc = "usage_extractor.run"
                       THEN [bigquery EXCEPT !.calls = Append(@,
                                RunCall("usage_extractor.run returned", <<>>))]
                       ELSE bigquery
           should == should_ingest(returned, config.include_table_lineage,
                         config.store_last_lineage_extraction_timestamp,
                         "lineage-extraction")
       IN  IF ~should.go
           THEN bigquery' = [should.b EXCEPT !.pc = "returned"]
           ELSE bigquery' = [should.b EXCEPT !.pc = "for project", !.frame.k = 1]
    /\ UNCHANGED pipeline_vars

RECURSIVE override_lineage(_, _)
\* lineage[view] = the upstream tables parsed from the view, for each view
override_lineage(lineage, views) ==
    IF views = <<>> THEN lineage
    ELSE override_lineage(OrderedSet(lineage, views[1].key, views[1].value),
                          SubSeq(views, 2, Len(views)))

\* The loop over the projects for lineage, and generate_lineage up to its
\* loop over the lineage keys.
generate_lineage ==
    /\ bigquery.method = "get_workunits_internal"
    /\ bigquery.pc = "for project"
    /\ LET f == bigquery.frame
       IN  IF f.k > Len(f.projects)
           THEN bigquery' = [bigquery EXCEPT !.pc = "returned"]
           ELSE LET project_id == f.projects[f.k]
                    lineage == bigquery.api.lineage
                    views == IF OrderedHas(bigquery.view_upstream_tables, project_id)
                             THEN OrderedGet(bigquery.view_upstream_tables, project_id)
                             ELSE <<>>
                IN  bigquery' = [bigquery EXCEPT
                        !.pc = "for lineage_key",
                        !.calls = Append(Append(@,
                            RunCall("set_ingestion_stage", <<project_id, "Lineage Extraction">>)),
                            RunCall("calculate_lineage_for_project", project_id)),
                        !.frame.project_id = project_id,
                        !.frame.lineage =
                            IF bigquery.config.lineage_parse_view_ddl
                            THEN override_lineage(lineage, views)
                            ELSE lineage,
                        !.frame.l = 1]
    /\ UNCHANGED pipeline_vars

\* Variant: every lineage key with upstreams yields its unit.
generate_lineage_for_every_key ==
    /\ bigquery.method = "get_workunits_internal"
    /\ bigquery.pc = "for lineage_key"
    /\ LET f == bigquery.frame
       IN  IF f.l > Len(f.lineage)
           THEN bigquery' = [bigquery EXCEPT !.pc = "for project", !.frame.k = @ + 1]
           ELSE LET lineage_key == f.lineage[f.l].key
                    lineage_info == f.lineage[f.l].value
                IN  IF lineage_info = {}
                    THEN bigquery' = [bigquery EXCEPT !.frame.l = @ + 1]
                    ELSE bigquery' = [RunYield(bigquery, "lineage", lineage_key)
                             EXCEPT !.frame.l = @ + 1]
    /\ UNCHANGED pipeline_vars

\* The loop over the lineage keys: a key that is not in table_refs is
\* passed over, the others yield their unit if they have upstreams.
generate_lineage_for ==
    /\ bigquery.method = "get_workunits_internal"
    /\ bigquery.pc = "for lineage_key"
    /\ LET f == bigquery.frame
       IN  IF f.l > Len(f.lineage)
           THEN bigquery' = [bigquery EXCEPT !.pc = "for project", !.frame.k = @ + 1]
           ELSE LET lineage_key == f.lineage[f.l].key
                    lineage_info == f.lineage[f.l].value
                IN  IF lineage_key \notin bigquery.table_refs \/ lineage_info = {}
                    THEN bigquery' = [bigquery EXCEPT !.frame.l = @ + 1]
                    ELSE bigquery' = [RunYield(bigquery, "lineage", lineage_key)
                             EXCEPT !.frame.l = @ + 1]
    /\ UNCHANGED pipeline_vars

NextRun ==
    \/ get_workunits_internal
    \/ get_workunits_internal_for
    \/ _process_project
    \/ _process_project_for
    \/ _process_schema
    \/ _process_table
    \/ _process_schema_views
    \/ _process_view
    \/ get_workunits_internal_usage
    \/ get_workunits_internal_lineage
    \/ generate_lineage
    \/ generate_lineage_for

SpecRun == InitRun /\ [][NextRun]_vars

-----------------------------------------------------------------------------
(* SnowflakeV2Config: the validators of the class.  A value that may be    *)
(* None or missing is a sequence of no or one element.                     *)

Missing == <<>>
Given(v) == <<v>>

\* values.get(key) is not None and its value is true
IsTrue(opt) == opt # Missing /\ opt[1]

AllowDenyPattern(allow, deny) == [allow |-> allow, deny |-> deny]
allow_all == AllowDenyPattern(<<".*">>, <<>>)

OptionalBooleans == {Missing, Given(FALSE), Given(TRUE)}

\* The values the validators can be handed: what the fields before them
\* have validated to; a field that failed is missing.
SnowflakeValues ==
    [include_read_operational_stats : OptionalBooleans,
     match_fully_qualified_names : OptionalBooleans,
     schema_pattern : {Missing, Given(allow_all),
                       Given(AllowDenyPattern(<<".*">>, <<"TEST_SCHEMA">>))},
     include_table_lineage : OptionalBooleans,
     include_technical_schema : OptionalBooleans,
     profiling : {Missing, Given([enabled |-> FALSE]), Given([enabled |-> TRUE])},
     stateful_ingestion :
         {Missing} \cup {Given([enabled |-> e, remove_stale_metadata |-> r]) :
                            e \in BOOLEAN, r \in BOOLEAN}]

InitSnowflake ==
    /\ chain = <<>>
    /\ active = 0
    /\ sig = "idle"
    /\ hand = NoUnit
    /\ err = ""
    /\ frame = <<>>
    /\ yielded = <<>>
    /\ handler = InitHandler({})
    /\ report = <<>>
    /\ entity_type_fn = "_default_entity_type_fn"
    /\ drop_dirs = {}
    /\ other = NoInvocation
    /\ bigquery = NoSource
    /\ \E values \in SnowflakeValues, include_column_lineage \in BOOLEAN :
        snowflake = [pc |-> "include_column_lineage",
                     v |-> include_column_lineage,
                     values |-> values,
                     validated |-> Missing,
                     errors |-> <<>>,
                     warnings |-> 0]

\* The validator of the field include_column_lineage
validate_include_column_lineage ==
    /\ snowflake.pc = "include_column_lineage"
    /\ IF ~IsTrue(snowflake.values.include_table_lineage) /\ snowflake.v
       THEN snowflake' = [snowflake EXCEPT
                !.pc = "root_validator",
                !.errors = Append(@, "include_table_lineage must be True")]
       ELSE snowflake' = [snowflake EXCEPT
                !.pc = "root_validator",
                !.validated = Given(snowflake.v)]
    /\ UNCHANGED <<bigquery, chain, active, sig, hand, err, frame, yielded, handler,
                   report, entity_type_fn, drop_dirs, other>>

\* Variant: the rule looks at profiling alone.
unsupported_configs_profiling_only(values) ==
    LET include_technical_schema == values.include_technical_schema
        include_profiles == values.profiling # Missing /\ values.profiling[1].enabled
    IN  IF IsTrue(values.include_read_operational_stats)
        THEN "include_read_operational_stats is not supported"
        ELSE IF ~IsTrue(include_technical_schema) /\ include_profiles
        THEN "Cannot perform Deletion Detection or Profiling"
        ELSE ""

\* The message of the ValueError that validate_unsupported_configs raises
\* for the values, "" when it returns them.
unsupported_configs(values) ==
    LET include_technical_schema == values.include_technical_schema
        include_profiles == values.profiling # Missing /\ values.profiling[1].enabled
        delete_detection_enabled ==
            /\ values.stateful_ingestion # Missing
            /\ values.stateful_ingestion[1].enabled
            /\ values.stateful_ingestion[1].remove_stale_metadata
    IN  IF IsTrue(values.include_read_operational_stats)
        THEN "include_read_operational_stats is not supported"
        ELSE IF /\ ~IsTrue(include_technical_schema)
                /\ (include_profiles \/ delete_detection_enabled)
        THEN "Cannot perform Deletion Detection or Profiling"
        ELSE ""

\* The root validator: the warning about schema_pattern, the deny pattern
\* added for INFORMATION_SCHEMA, and the unsupported combinations.
validate_unsupported_configs ==
    /\ snowflake.pc = "root_validator"
    /\ LET values == snowflake.values
           schema_pattern == values.schema_pattern
           stats == IsTrue(values.include_read_operational_stats)
           warns == /\ ~stats
                    /\ schema_pattern # Missing
                    /\ schema_pattern # Given(allow_all)
                    /\ values.match_fully_qualified_names # Missing
                    /\ ~values.match_fully_qualified_names[1]
           denied == IF ~stats /\ schema_pattern # Missing
                     THEN Given([schema_pattern[1] EXCEPT
                              !.deny = Append(@, ".*INFORMATION_SCHEMA$")])
                     ELSE schema_pattern
           message == unsupported_configs(values)
       IN  snowflake' = [snowflake EXCEPT
               !.pc = "validated",
               !.values.schema_pattern = denied,
               !.warnings = IF warns THEN @ + 1 ELSE @,
               !.errors = IF message # "" THEN Append(@, message) ELSE @]
    /\ UNCHANGED <<bigquery, chain, active, sig, hand, err, frame, yielded, handler,
                   report, entity_type_fn, drop_dirs, other>>

NextSnowflake ==
    \/ validate_include_column_lineage
    \/ validate_unsupported_configs

SpecSnowflake == InitSnowflake /\ [][NextSnowflake]_vars

-----------------------------------------------------------------------------
(* Properties.  The input of stage i is what position i-1 has yielded.     *)

Input(i) == Units(i - 1)
UrnsOf(units) == {get_urn(units[k]) : k \in 1..Len(units)}
SynthUrns(i) == {get_urn(Synthesized(i)[k].wu) : k \in 1..Len(Synthesized(i))}
StagesOf(fn) == {i \in Stages : chain[i] = fn}
\* The stages that hand their input on as it is: all but the adapter.
PassThroughStages == Stages \ StagesOf("auto_workunit")
\* Generator i ran to its end: its input was fully consumed.
Completed(i) == frame[i].pc = "done"
\* Some position upstream of stage i has raised.
RaisedUpstream(i) == \E j \in 0..(i - 1) : frame[j].pc = "raised"

\* A unit carries a status aspect, in whichever of the three shapes.
CarriesStatus(wu) ==
    \/ /\ wu.metadata.class = "MetadataChangeEventClass"
       /\ \E a \in Range(wu.metadata.aspects) : a.ASPECT_NAME = "status"
    \/ /\ wu.metadata.class = "MetadataChangeProposalWrapper"
       /\ wu.metadata.aspect.ASPECT_NAME = "status"
    \/ /\ wu.metadata.class = "MetadataChangeProposalClass"
       /\ wu.metadata.aspectName = "status"

\* The has-status set of a stream.
HasStatusSet(units) ==
    {get_urn(units[k]) : k \in {j \in 1..Len(units) :
        ~units[j].is_primary_source \/ CarriesStatus(units[j])}}

IsNotRemovedStatusUnit(wu) ==
    /\ wu.is_primary_source
    /\ wu.metadata.class = "MetadataChangeProposalWrapper"
    /\ wu.metadata.aspect = [ASPECT_NAME |-> "status", removed |-> FALSE]

\* C1: once auto_status_aspect has consumed its whole input and returned,
\* its synthetic units are not-removed status units, exactly one for each
\* URN of the input that is not in the has-status set, and none for any
\* other URN.
C1_StatusSynthesis ==
    \A i \in StagesOf("auto_status_aspect") :
        Completed(i) =>
            LET syn == Synthesized(i)
                need == UrnsOf(Input(i)) \ HasStatusSet(Input(i))
            IN  /\ \A k \in 1..Len(syn) : IsNotRemovedStatusUnit(syn[k].wu)
                /\ SynthUrns(i) = need
                /\ Len(syn) = Cardinality(need)

\* C1 witness: a completed run over three units of two URNs, one URN with a
\* non-primary unit and no synthetic unit, the other with a synthetic unit.
C1_Witness ==
    \E i \in StagesOf("auto_status_aspect") :
        /\ Completed(i)
        /\ Len(Input(i)) = 3
        /\ SynthUrns(i) = {D2}
        /\ \E k \in 1..3 : get_urn(Input(i)[k]) = D1 /\ ~Input(i)[k].is_primary_source
        /\ \E k \in 1..3 : get_urn(Input(i)[k]) = D1 /\ Input(i)[k].is_primary_source

\* C11: when auto_status_aspect runs over the output of auto_status_aspect
\* and both have returned, the second pass has synthesized nothing and its
\* output is, unit for unit, its input: the units of the source followed by
\* the status units of the first pass.
C11_StatusIdempotent ==
    ( chain = Twice /\ Completed(1) /\ Completed(2) ) =>
            /\ Synthesized(2) = <<>>
            /\ Units(2) = Units(1)
            /\ Units(1) = Units(0) \o [k \in 1..Len(Synthesized(1)) |->
                                          Synthesized(1)[k].wu]

\* C11 witness: both passes have returned; the first synthesized a status
\* unit for each of two URNs, which the second took in as input.
C11_Witness ==
    /\ chain = Twice
    /\ Completed(1) /\ Completed(2)
    /\ active = Consumer /\ sig = "stop"
    /\ SynthUrns(1) = {D1, D2}
    /\ Len(Units(2)) = 4

\* The URNs of the units position i has synthesized, in order.
SynthUrnSeq(i) == [k \in 1..Len(Synthesized(i)) |-> get_urn(Synthesized(i)[k].wu)]

StrictlyAscending(urns) ==
    \A j, k \in 1..Len(urns) : j < k => UrnLess(urns[j], urns[k])

\* C12: the URNs of the synthetic units of auto_status_aspect and of
\* auto_materialize_referenced_tags are strictly ascending at every point of
\* a run; after a completed run they are the URNs of a set that depends on
\* which units the input holds and not on where they stand, so the sequence
\* of synthetic units is the same for every arrival order of the same units.
C12_SortedSynthesis ==
    /\ \A i \in StagesOf("auto_status_aspect") :
           /\ StrictlyAscending(SynthUrnSeq(i))
           /\ Completed(i) =>
                  /\ Range(SynthUrnSeq(i)) =
                         UrnsOf(Input(i)) \ HasStatusSet(Input(i))
                  /\ \A k \in 1..Len(Synthesized(i)) :
                         IsNotRemovedStatusUnit(Synthesized(i)[k].wu)
    /\ \A i \in StagesOf("auto_materialize_referenced_tags") :
           /\ StrictlyAscending(SynthUrnSeq(i))
           /\ Completed(i) =>
                  /\ Range(SynthUrnSeq(i)) =
                         {t \in {T1, T2} :
                             /\ \E u \in Range(Input(i)) :
                                    t \in list_urns(u.metadata)
                             /\ \A u \in Range(Input(i)) : get_urn(u) # t}
                  /\ \A k \in 1..Len(Synthesized(i)) :
                         Synthesized(i)[k].wu = tag_key_workunit(SynthUrnSeq(i)[k])

\* C12 witness: in the pipeline the unit of container C1 arrives before the
\* unit of its parent P, which names tag T2 before tag T1; the status units
\* are those of P then C1, the tag-key units those of T1 then T2.
C12_Witness ==
    /\ chain = Pipeline
    /\ Completed(1) /\ Completed(2)
    /\ Len(Input(1)) = 2
    /\ get_urn(Input(1)[1]) = C1 /\ get_urn(Input(1)[2]) = P
    /\ SynthUrnSeq(1) = <<P, C1>>
    /\ SynthUrnSeq(2) = <<T1, T2>>

\* The URNs of the units of a stream that are not primary-source.
NonPrimaryUrns(units) ==
    {get_urn(units[k]) : k \in {j \in 1..Len(units) : ~units[j].is_primary_source}}

\* C13: auto_status_aspect never synthesizes a status unit for a URN that
\* some input unit which is not primary-source has, whatever that unit's
\* payload and whatever primary-source units of the same URN stand before or
\* after it.
C13_NonPrimarySuppresses ==
    \A i \in StagesOf("auto_status_aspect") :
        SynthUrns(i) \cap NonPrimaryUrns(Input(i)) = {}

\* C13 witness: a completed run over three units of D1 without a status
\* aspect, the middle one not primary-source: nothing is synthesized.
C13_Witness ==
    \E i \in StagesOf("auto_status_aspect") :
        /\ Completed(i)
        /\ Len(Input(i)) = 3
        /\ \A k \in 1..3 : get_urn(Input(i)[k]) = D1 /\ ~CarriesStatus(Input(i)[k])
        /\ Input(i)[1].is_primary_source
        /\ ~Input(i)[2].is_primary_source
        /\ Input(i)[3].is_primary_source
        /\ Synthesized(i) = <<>>

\* C13 witness for a payload of no recognised shape: D2 only in a unit that
\* is not primary-source and has such a payload, D1 in need of a status.
C13_WitnessUnknownPayload ==
    \E i \in StagesOf("auto_status_aspect") :
        /\ Completed(i)
        /\ \E k \in 1..Len(Input(i)) :
               /\ ~recognised(Input(i)[k])
               /\ ~Input(i)[k].is_primary_source
               /\ get_urn(Input(i)[k]) = D2
        /\ SynthUrns(i) = {D1}

\* Stage i holds a unit it has not looked at yet.
Pending(i) == active = i /\ sig = "item"

\* The units of the input of stage i that the stage has looked at.
Seen(i) ==
    SubSeq(Input(i), 1, IF Pending(i) THEN Len(Input(i)) - 1 ELSE Len(Input(i)))

\* The stage has raised ValueError, which nothing downstream catches.
RaisedValueError(i) ==
    /\ frame[i].pc = "raised"
    /\ sig = "error" /\ err = "ValueError"
    /\ active > i

\* C14 as stated: once auto_status_aspect has looked at a unit whose payload
\* is none of the three shapes it has raised, and no such unit is in its
\* output.
C14_UnknownShapeAlwaysFatal ==
    \A i \in StagesOf("auto_status_aspect") :
        /\ (\E k \in 1..Len(Seen(i)) : ~recognised(Seen(i)[k]))
               => RaisedValueError(i)
        /\ \A k \in 1..Len(yielded[i]) : recognised(yielded[i][k].wu)

\* C14 amended: once auto_status_aspect has looked at a primary-source unit
\* whose payload is none of the three shapes it has raised ValueError, that
\* unit is the last it took and is not in its output, and nothing was
\* synthesized; the stage raises an error of its own for no other unit: a
\* unit that is not primary-source is passed through whatever its payload.
C14_UnknownPrimaryShapeFatal ==
    \A i \in StagesOf("auto_status_aspect") :
        LET bad == {k \in 1..Len(Seen(i)) :
                       Seen(i)[k].is_primary_source /\ ~recognised(Seen(i)[k])}
        IN  /\ bad # {} =>
                   /\ RaisedValueError(i)
                   /\ bad = {Len(Input(i))}
                   /\ Units(i) = SubSeq(Input(i), 1, Len(Input(i)) - 1)
                   /\ Synthesized(i) = <<>>
            /\ \A k \in 1..Len(yielded[i]) :
                   \/ recognised(yielded[i][k].wu)
                   \/ ~yielded[i][k].wu.is_primary_source
            /\ bad = {} =>
                   /\ frame[i].pc = "raised" => RaisedUpstream(i)
                   /\ \A k \in 1..Len(Seen(i)) :
                          /\ k <= Len(yielded[i])
                          /\ yielded[i][k].wu = Seen(i)[k]

\* C14 witness: a unit of unrecognised payload that is not primary-source
\* went through, the next one, primary-source, ended the run with ValueError.
C14_Witness ==
    \E i \in StagesOf("auto_status_aspect") :
        /\ Len(Input(i)) = 2
        /\ ~recognised(Input(i)[1]) /\ ~Input(i)[1].is_primary_source
        /\ ~recognised(Input(i)[2]) /\ Input(i)[2].is_primary_source
        /\ Units(i) = <<Input(i)[1]>>
        /\ RaisedValueError(i)
        /\ active = Consumer

-----------------------------------------------------------------------------
(* auto_stale_entity_removal                                               *)

\* The URNs a run registers as seen: those of the primary-source units whose
\* entity type resolves.
RegisteredSeen(units) ==
    {get_urn(units[k]) : k \in {j \in 1..Len(units) :
        /\ units[j].is_primary_source
        /\ ApplyEntityTypeFn(entity_type_fn, units[j]) # None}}

\* The URNs a run registers to skip: those of the units not primary-source.
RegisteredSkip(units) ==
    {get_urn(units[k]) : k \in {j \in 1..Len(units) : ~units[j].is_primary_source}}

IsRemovalUnit(wu) ==
    /\ wu.metadata.class = "MetadataChangeProposalWrapper"
    /\ wu.metadata.aspect = [ASPECT_NAME |-> "status", removed |-> TRUE]

\* C2: once auto_stale_entity_removal has consumed its whole input and
\* returned, the removal units it emitted are exactly one per URN of the
\* prior checkpoint that the run registered neither as seen nor to skip.
\* With checkpoint {D1, D2} and only D1 observed, as primary, the one removal
\* is for D2; a unit for D3 that is not primary-source leaves D3 unremoved.
C2_StaleRemovals ==
    \A i \in StagesOf("auto_stale_entity_removal") :
        Completed(i) =>
            LET rem == Synthesized(i)
                stale == (handler.checkpoint \ RegisteredSeen(Input(i)))
                             \ RegisteredSkip(Input(i))
            IN  /\ \A k \in 1..Len(rem) : IsRemovalUnit(rem[k].wu)
                /\ SynthUrns(i) = stale
                /\ Len(rem) = Cardinality(stale)
                /\ ( /\ handler.checkpoint = {D1, D2}
                     /\ entity_type_fn = "_default_entity_type_fn"
                     /\ Input(i) # <<>>
                     /\ \A k \in 1..Len(Input(i)) :
                            get_urn(Input(i)[k]) = D1 /\ Input(i)[k].is_primary_source )
                   => Len(rem) = 1 /\ get_urn(rem[1].wu) = D2
                /\ (\E k \in 1..Len(Input(i)) :
                        get_urn(Input(i)[k]) = D3 /\ ~Input(i)[k].is_primary_source)
                   => D3 \notin SynthUrns(i)

\* C2 witness: checkpoint {D1, D2, D3}, D1 seen as primary, D3 only in a unit
\* that is not primary-source: the run ends with the one removal, for D2.
C2_Witness ==
    \E i \in StagesOf("auto_stale_entity_removal") :
        /\ Completed(i)
        /\ handler.checkpoint = {D1, D2, D3}
        /\ entity_type_fn = "_default_entity_type_fn"
        /\ Len(Input(i)) = 2
        /\ get_urn(Input(i)[1]) = D1 /\ Input(i)[1].is_primary_source
        /\ get_urn(Input(i)[2]) = D3 /\ ~Input(i)[2].is_primary_source
        /\ Len(Synthesized(i)) = 1
        /\ get_urn(Synthesized(i)[1].wu) = D2

\* The calls the routing policy asks for one unit.
ExpectedCalls(wu) ==
    IF wu.is_primary_source
    THEN IF ApplyEntityTypeFn(entity_type_fn, wu) # None
         THEN << <<"add_entity_to_state", ApplyEntityTypeFn(entity_type_fn, wu),
                   get_urn(wu)>> >>
         ELSE <<>>
    ELSE << <<"add_urn_to_skip", get_urn(wu)>> >>

RECURSIVE ExpectedCallLog(_)
ExpectedCallLog(units) ==
    IF units = <<>> THEN <<>>
    ELSE ExpectedCalls(Head(units)) \o ExpectedCallLog(Tail(units))

\* The add_* calls made on the collaborator so far.
AddCalls == SelectSeq(handler.calls, LAMBDA c : c[1] # "gen_removed_entity_workunits")

\* C3: at every point of a run the add_* calls made on the collaborator are,
\* in order, those of the routing policy for the units the stage has yielded
\* so far: add_entity_to_state for a primary-source unit whose type resolves,
\* add_urn_to_skip for a unit that is not primary-source, none for a
\* primary-source unit without a type; so no unit is yielded before its call.
C3_Routing ==
    \A i \in StagesOf("auto_stale_entity_removal") :
        AddCalls = ExpectedCallLog([k \in 1..Len(PassedThrough(i)) |->
                                        PassedThrough(i)[k].wu])

\* C3 witness: three units yielded, one of each routing case.
C3_Witness ==
    \E i \in StagesOf("auto_stale_entity_removal") :
        /\ Len(PassedThrough(i)) = 3
        /\ entity_type_fn = "containers_only"
        /\ \E k \in 1..3 : get_urn(Input(i)[k]) = P
        /\ \E k \in 1..3 : get_urn(Input(i)[k]) = D1 /\ Input(i)[k].is_primary_source
        /\ \E k \in 1..3 : ~Input(i)[k].is_primary_source
        /\ Len(handler.calls) = 2

-----------------------------------------------------------------------------
(* auto_browse_path_v2                                                     *)

\* The aspects of a unit of the given name, read off the payload.
AspectsNamed(wu, name) ==
    IF wu.metadata.class = "MetadataChangeEventClass"
    THEN SelectSeq(wu.metadata.aspects, LAMBDA a : a.ASPECT_NAME = name)
    ELSE IF wu.metadata.aspect.ASPECT_NAME = name THEN <<wu.metadata.aspect>> ELSE <<>>

RECURSIVE ContainerEdges(_)
\* The (child, parent) pairs of the container aspects of a stream, in order.
ContainerEdges(units) ==
    IF units = <<>> THEN <<>>
    ELSE LET wu == Head(units)
             cs == AspectsNamed(wu, "container")
         IN  [k \in 1..Len(cs) |-> <<get_urn(wu), cs[k].container>>]
             \o ContainerEdges(Tail(units))

HasRecordedParent(units, n) == \E e \in Range(ContainerEdges(units)) : e[1] = n

\* The recorded parent of n: that of its last container aspect.
RecordedParent(units, n) ==
    LET es == SelectSeq(ContainerEdges(units), LAMBDA e : e[1] = n)
    IN  es[Len(es)][2]

\* The skip set: the URNs with a v2 browse-path aspect in the stream.
SkipSet(units) ==
    {get_urn(units[k]) : k \in {j \in 1..Len(units) :
        AspectsNamed(units[j], "browsePathsV2") # <<>>}}

\* The positions of the hierarchy-derived units in the output of stage i.
HierarchyAt(i) == {k \in 1..Len(yielded[i]) : yielded[i][k].by = "hierarchy"}

\* C4: every hierarchy-derived unit for a node whose recorded parent is not
\* in the skip set comes after a hierarchy-derived unit for that parent,
\* whichever nodes the work-list hands out first.
C4_AncestorFirst ==
    \A i \in StagesOf("auto_browse_path_v2") :
        \A k \in HierarchyAt(i) :
            LET n == get_urn(yielded[i][k].wu)
            IN  ( /\ HasRecordedParent(Input(i), n)
                  /\ RecordedParent(Input(i), n) \notin SkipSet(Input(i)) )
                => \E j \in HierarchyAt(i) :
                       /\ j < k
                       /\ get_urn(yielded[i][j].wu) = RecordedParent(Input(i), n)

\* C4 witness: a completed run over the chain P -> C1 -> D1, all three with
\* a hierarchy-derived unit.
C4_Witness ==
    \E i \in StagesOf("auto_browse_path_v2") :
        /\ Completed(i)
        /\ Len(Input(i)) = 3
        /\ \E k \in HierarchyAt(i) : get_urn(yielded[i][k].wu) = D1
        /\ \E k \in HierarchyAt(i) : get_urn(yielded[i][k].wu) = C1
        /\ \E k \in HierarchyAt(i) : get_urn(yielded[i][k].wu) = P
        /\ RecordedParent(Input(i), D1) = C1

RECURSIVE AncestorChain(_, _, _)
\* The ancestors of n by recorded parents, root first, n excluded; fuel
\* bounds the walk.
AncestorChain(units, n, fuel) ==
    IF fuel = 0 \/ ~HasRecordedParent(units, n) THEN <<>>
    ELSE LET parent == RecordedParent(units, n)
         IN  Append(AncestorChain(units, parent, fuel - 1), parent)

\* The container-typed subjects of a stream without a recorded parent.
RootContainers(units) ==
    {u \in UrnsOf(units) :
        guess_entity_type(u) = "container" /\ ~HasRecordedParent(units, u)}

ChainPCC ==
    << MetadataWorkUnit(MetadataChangeProposalWrapper(P, ContainerPropertiesClass), TRUE),
       MetadataWorkUnit(MetadataChangeProposalWrapper(C1, ContainerClass(P)), TRUE),
       MetadataWorkUnit(MetadataChangeProposalClass(C2, ContainerClass(C1)), TRUE) >>

PathUrns(wu) ==
    [k \in 1..Len(wu.metadata.aspect.path) |-> wu.metadata.aspect.path[k].urn]

LegacyAt(i) == {k \in 1..Len(yielded[i]) : yielded[i][k].by = "legacy"}

HierarchyUrns(i) == {get_urn(yielded[i][k].wu) : k \in HierarchyAt(i)}
LegacyUrns(i) == {get_urn(yielded[i][k].wu) : k \in LegacyAt(i)}

\* C15: auto_browse_path_v2 synthesizes no unit, hierarchy-derived or
\* legacy-derived, for a URN that some input unit gives a v2 browse path,
\* wherever that unit stands in the stream.
C15_NoOverwrite ==
    \A i \in StagesOf("auto_browse_path_v2") :
        (HierarchyUrns(i) \cup LegacyUrns(i)) \cap SkipSet(Input(i)) = {}

\* C15 witness: a completed run in which D2 has a legacy path and, in a
\* later unit, a v2 path, and container C1 has a parent and a v2 path: the
\* stage synthesized a unit for P alone.
C15_Witness ==
    \E i \in StagesOf("auto_browse_path_v2") :
        /\ Completed(i)
        /\ \E j, k \in 1..Len(Input(i)) :
               /\ j < k
               /\ get_urn(Input(i)[j]) = D2
               /\ AspectsNamed(Input(i)[j], "browsePaths") # <<>>
               /\ get_urn(Input(i)[k]) = D2
               /\ AspectsNamed(Input(i)[k], "browsePathsV2") # <<>>
        /\ \E k \in 1..Len(Input(i)) : get_urn(Input(i)[k]) = P
        /\ HierarchyUrns(i) = {P}
        /\ LegacyUrns(i) = {}

\* The URNs of a stream with a legacy path recorded: those with a
\* browse-paths aspect whose list of paths is not empty.
LegacyPathUrns(units) ==
    {get_urn(units[k]) : k \in {j \in 1..Len(units) :
        \E a \in Range(AspectsNamed(units[j], "browsePaths")) : a.paths # <<>>}}

\* C16: no URN has both a hierarchy-derived and a legacy-derived unit; after
\* a completed run every URN with a legacy path recorded and no v2 path of
\* its own has a unit of exactly one of the two kinds, and one unit only
\* when that is the legacy-derived kind.
C16_HierarchyPrecedence ==
    \A i \in StagesOf("auto_browse_path_v2") :
        /\ HierarchyUrns(i) \cap LegacyUrns(i) = {}
        /\ Completed(i) =>
               /\ LegacyPathUrns(Input(i)) \ SkipSet(Input(i))
                      \subseteq HierarchyUrns(i) \cup LegacyUrns(i)
               /\ \A j, k \in LegacyAt(i) :
                      get_urn(yielded[i][j].wu) = get_urn(yielded[i][k].wu) => j = k

\* C16 witness: a completed run in which D1 has the parent P and a legacy
\* path, and D2 a legacy path only: D1 has its hierarchy-derived unit with
\* the path [P], D2 its legacy-derived unit.
C16_Witness ==
    \E i \in StagesOf("auto_browse_path_v2") :
        /\ Completed(i)
        /\ D1 \in LegacyPathUrns(Input(i))
        /\ \E k \in HierarchyAt(i) :
               /\ get_urn(yielded[i][k].wu) = D1
               /\ PathUrns(yielded[i][k].wu) = <<P>>
        /\ LegacyUrns(i) = {D2}

\* C17 as stated: a legacy-derived unit is emitted for a URN only if no unit
\* of the input carried a container aspect for that URN.
C17_LegacyOnlyWithoutContainerAspect ==
    \A i \in StagesOf("auto_browse_path_v2") :
        \A u \in LegacyUrns(i) : ~HasRecordedParent(Input(i), u)

\* The segments of section 8's example and of the other paths, worked out
\* by hand: "/a/b/c", "/a/ b/" and "x".
ExpectedSegments(path, dirs) ==
    CASE path = Path_a_b_c ->
           IF <<"b">> \in dirs THEN << <<"a">>, <<"c">> >>
           ELSE << <<"a">>, <<"b">>, <<"c">> >>
      [] path = Path_a_sp_b ->
           IF <<"b">> \in dirs THEN << <<"a">> >> ELSE << <<"a">>, <<" ", "b">> >>
      [] path = Path_x -> << <<"x">> >>

\* The first path of the last browse-paths aspect of u with a path at all.
FirstLegacyPath(units, u) ==
    LET at == {k \in 1..Len(units) :
                  /\ get_urn(units[k]) = u
                  /\ \E a \in Range(AspectsNamed(units[k], "browsePaths")) :
                         a.paths # <<>>}
        last == CHOOSE k \in at : \A j \in at : j <= k
        as == SelectSeq(AspectsNamed(units[last], "browsePaths"),
                        LAMBDA a : a.paths # <<>>)
    IN  as[Len(as)].paths[1]

\* C18: every legacy-derived unit for u is a v2 browse path whose entries
\* are, in order, the segments kept of the first path of u's browse-paths
\* aspect, "/" stripped at both ends, split on "/", without the segments
\* that trimmed are in drop_dirs, each entry with that segment as its id and
\* no urn; u has a browse-paths aspect with a path.  For "/a/b/c" and
\* drop_dirs {"b"} the ids are "a", "c".
C18_LegacySegments ==
    \A i \in StagesOf("auto_browse_path_v2") :
        \A k \in LegacyAt(i) :
            LET wu == yielded[i][k].wu
                u == get_urn(wu)
                path == wu.metadata.aspect.path
            IN  /\ u \in LegacyPathUrns(Input(i))
                /\ wu.metadata.class = "MetadataChangeProposalWrapper"
                /\ wu.metadata.aspect.ASPECT_NAME = "browsePathsV2"
                /\ LET want == ExpectedSegments(FirstLegacyPath(Input(i), u),
                                                 drop_dirs)
                   IN  /\ Len(path) = Len(want)
                       /\ \A h \in 1..Len(path) :
                              path[h].id = want[h] /\ path[h].urn = None

\* C18 witness: D2 has the legacy path "/a/b/c" and drop_dirs is {"b"}: its
\* legacy-derived unit has the ids "a", "c".
C18_Witness ==
    \E i \in StagesOf("auto_browse_path_v2") :
        /\ drop_dirs = {<<"b">>}
        /\ \E k \in LegacyAt(i) :
               /\ get_urn(yielded[i][k].wu) = D2
               /\ yielded[i][k].wu.metadata.aspect.path =
                      << [id |-> <<"a">>, urn |-> None],
                         [id |-> <<"c">>, urn |-> None] >>
        /\ FirstLegacyPath(Input(i), D2) = Path_a_b_c
        /\ ~HasRecordedParent(Input(i), D2)

-----------------------------------------------------------------------------
(* Streaming                                                               *)

\* The upstream neighbour of stage i has reported exhaustion.
UpstreamExhausted(i) == frame[i - 1].pc = "done"

\* C6: in the output of every stage each unit passed through comes before
\* each synthesized unit, and a stage has synthesized nothing as long as its
\* upstream has not reported exhaustion.
C6_SynthesisAfterInput ==
    \A i \in Stages :
        /\ \A j, k \in 1..Len(yielded[i]) :
               (j < k /\ yielded[i][k].by = "input") => yielded[i][j].by = "input"
        /\ Synthesized(i) # <<>> => UpstreamExhausted(i)

\* C6 witness: the pipeline run to the end, with units synthesized by all
\* four synthesizing stages behind the three units of the source.
C6_Witness ==
    /\ chain = Pipeline
    /\ active = Consumer /\ sig = "stop"
    /\ Len(yielded[0]) = 3
    /\ \A i \in 1..4 : Synthesized(i) # <<>>
    /\ \A k \in 1..3 : yielded[N][k].wu = yielded[0][k].wu

GenRemovedCalled ==
    \E k \in 1..Len(handler.calls) : handler.calls[k][1] = "gen_removed_entity_workunits"

\* The consumer stopped pulling before stage i saw the end of its input.
AbandonedEarly(i) == sig = "abandoned" /\ ~UpstreamExhausted(i)

\* C7: a stage whose upstream raised, or whose consumer stopped pulling
\* before the input was exhausted, has synthesized nothing and has not asked
\* the collaborator for removals; and an error raised by the source is in
\* flight, unchanged, through stages that ended with it, until the consumer
\* has it.
C7_NoSynthesisOnIncompleteRun ==
    /\ \A i \in Stages :
           (RaisedUpstream(i) \/ AbandonedEarly(i)) =>
               /\ Synthesized(i) = <<>>
               /\ chain[i] = "auto_stale_entity_removal" => ~GenRemovedCalled
    /\ frame[0].pc = "raised" =>
           /\ sig = "error"
           /\ err = "SourceError"
           /\ \A j \in 1..(active - 1) : frame[j].pc = "raised"

\* C7 witness: the source of the pipeline raised after two units and the
\* consumer has the error; the checkpoint held URNs to remove.
C7_Witness ==
    /\ chain = Pipeline
    /\ frame[0].pc = "raised"
    /\ Len(yielded[0]) = 2
    /\ active = Consumer
    /\ handler.checkpoint # {}
    /\ Len(yielded[N]) = 2

\* C8: what a stage has passed through is, unit for unit and in order, the
\* beginning of its input; it is all of its input whenever the stage has
\* asked for more or has seen the end of its input.
C8_PassThrough ==
    \A i \in PassThroughStages :
        LET pt == [k \in 1..Len(PassedThrough(i)) |-> PassedThrough(i)[k].wu]
        IN  /\ Len(pt) <= Len(Input(i))
            /\ pt = SubSeq(Input(i), 1, Len(pt))
            /\ (active < i \/ frame[i].pc \in {"final", "pass2", "legacy", "done"})
                   => Len(pt) = Len(Input(i))

\* C8 witness: the pipeline at its end, a unit that is not primary-source
\* among the three that went through all five stages.
C8_Witness ==
    /\ chain = Pipeline
    /\ active = Consumer /\ sig = "stop"
    /\ Len(yielded[0]) = 3
    /\ Len(PassedThrough(N)) > 3
    /\ \E k \in 1..3 : ~yielded[0][k].wu.is_primary_source
    /\ \A i \in Stages : Len(PassedThrough(i)) = Len(Input(i))

\* C9: a stage is never more than one unit ahead of what it has passed on,
\* and whenever the source is asked for a unit the consumer already holds
\* every unit the source has produced (as the adapter made it a unit, in a
\* chain with the adapter).
C9_NoBuffering ==
    /\ \A i \in Stages : Len(Input(i)) - Len(PassedThrough(i)) <= 1
    /\ Len(yielded[0]) - Len(yielded[N]) <= 1
    /\ (active = 0 /\ sig = "next") =>
           /\ Len(Units(N)) = Len(Units(0))
           /\ PassThroughStages = Stages => Units(N) = Units(0)

\* C9 witness: the source of the pipeline is asked for its third unit while
\* the consumer holds the first two.
C9_Witness ==
    /\ chain = Pipeline
    /\ active = 0 /\ sig = "next"
    /\ Len(yielded[0]) = 2
    /\ Len(yielded[N]) = 2

-----------------------------------------------------------------------------
(* auto_materialize_referenced_tags                                        *)

\* The URN occurs in the payload: as its subject or in a field of an aspect.
Mentions(wu, urn) ==
    \/ get_urn(wu) = urn
    \/ \E a \in Range(aspects_of(wu.metadata)) :
           \/ a.ASPECT_NAME = "globalTags" /\ urn \in Range(a.tags)
           \/ a.ASPECT_NAME = "upstreamLineage" /\ urn = a.dataset
           \/ a.ASPECT_NAME = "container" /\ urn = a.container

AllTags == {T1, T2}

IsTagKeyUnit(wu) ==
    /\ wu.metadata.class = "MetadataChangeProposalWrapper"
    /\ wu.metadata.aspect = [ASPECT_NAME |-> "tagKey", name |-> get_urn(wu).id]

\* C10: once auto_materialize_referenced_tags has consumed its whole input
\* and returned, its synthetic units are tag-key units, exactly one for each
\* tag URN that some unit mentions and no unit has as its subject, wherever
\* the units are in the stream; none for a tag that is a subject, none for a
\* URN that is no tag.
C10_TagMaterialization ==
    \A i \in StagesOf("auto_materialize_referenced_tags") :
        Completed(i) =>
            LET syn == Synthesized(i)
                need == {t \in AllTags :
                            /\ \E k \in 1..Len(Input(i)) : Mentions(Input(i)[k], t)
                            /\ t \notin UrnsOf(Input(i))}
            IN  /\ \A k \in 1..Len(syn) : IsTagKeyUnit(syn[k].wu)
                /\ SynthUrns(i) = need
                /\ Len(syn) = Cardinality(need)
                /\ \A u \in SynthUrns(i) : guess_entity_type(u) = "tag"

\* C10 witness: T1 and T2 are referenced, T1 is the subject of a later unit:
\* the one synthetic unit is for T2.
C10_Witness ==
    \E i \in StagesOf("auto_materialize_referenced_tags") :
        /\ Completed(i)
        /\ Len(Input(i)) = 2
        /\ Mentions(Input(i)[1], T1) /\ Mentions(Input(i)[1], T2)
        /\ get_urn(Input(i)[1]) = D1
        /\ get_urn(Input(i)[2]) = T1
        /\ SynthUrns(i) = {T2}

-----------------------------------------------------------------------------
(* auto_workunit                                                           *)

\* The unit C19 asks for the k-th item of the input of stage i.
WantedUnit(item) ==
    IF item.class = "MetadataChangeEventClass"
    THEN [id |-> <<item.urn, "/mce">>, metadata |-> item, is_primary_source |-> TRUE]
    ELSE [metadata |-> item, is_primary_source |-> TRUE]

\* C19: the output of auto_workunit is, position by position, the unit of
\* the item at that position of its input: for a snapshot the unit with the
\* id "<urn>/mce", <urn> the snapshot's URN, and the snapshot as payload; for
\* a wrapped proposal the unit the proposal builds of itself.  The output is
\* never longer than the input, is one short only while the last item is
\* in hand, and has the length of the input after the generator returned.
C19_OneUnitPerItem ==
    \A i \in StagesOf("auto_workunit") :
        /\ Len(Units(i)) = Len(Seen(i))
        /\ \A k \in 1..Len(Units(i)) : Units(i)[k] = WantedUnit(Input(i)[k])
        /\ Completed(i) => Len(Units(i)) = Len(Input(i))

\* C19 witness: a completed run over a snapshot, a wrapped proposal and the
\* same snapshot again: three units, the first and third with the id of the
\* snapshot's URN.
C19_Witness ==
    \E i \in StagesOf("auto_workunit") :
        /\ Completed(i)
        /\ Len(Units(i)) = 3
        /\ Input(i)[1].class = "MetadataChangeEventClass"
        /\ Input(i)[2].class = "MetadataChangeProposalWrapper"
        /\ Input(i)[3] = Input(i)[1]
        /\ Units(i)[1].id = <<D2, "/mce">>
        /\ Units(i)[3] = Units(i)[1]

-----------------------------------------------------------------------------
(* auto_workunit_reporter                                                  *)

\* The report call of stage i failed.
ReportFailed(i) == frame[i].pc = "raised" /\ ~RaisedUpstream(i)

\* C20: at every point of a run the units reported are, in order and one
\* call each, the first units of the reporter's input, and the units yielded
\* are the units reported, but for the last one between its report call and
\* its yield: a unit is reported before it is yielded and no unit is
\* reported ahead of the one being yielded, so the report calls never
\* outnumber the units yielded by more than one.  Unless a report call
\* failed every unit the stage has looked at is reported and yielded; when
\* one failed, the error is on its way to the consumer and the unit in hand
\* is neither reported nor yielded.
C20_ReportPerUnit ==
    \A i \in StagesOf("auto_workunit_reporter") :
        /\ Len(yielded[i]) <= Len(report)
        /\ Units(i) = SubSeq(report, 1, Len(yielded[i]))
        /\ report = SubSeq(Input(i), 1, Len(report))
        /\ Len(report) - Len(yielded[i]) <= 1
        /\ Len(report) = Len(yielded[i]) + 1 <=>
               (active = i /\ sig = "run" /\ frame[i].pc = "reported")
        /\ ~ReportFailed(i) => report = Seen(i)
        /\ ReportFailed(i) =>
               /\ sig = "error" /\ err = "ReportError" /\ active > i
               /\ Len(Input(i)) = Len(yielded[i]) + 1
               /\ Len(report) = Len(Input(i)) - 1

\* C20 witness: the same unit went through twice and was reported twice,
\* then the report call for a third unit failed and the consumer has the
\* error.
C20_Witness ==
    \E i \in StagesOf("auto_workunit_reporter") :
        /\ ReportFailed(i)
        /\ active = Consumer
        /\ Len(Input(i)) = 3
        /\ Len(report) = 2
        /\ report[1] = report[2]
        /\ Input(i)[3] # report[1]

-----------------------------------------------------------------------------
(* BigqueryV2Source._get_projects                                          *)

Returned(method) == bigquery.method = method /\ bigquery.pc = "returned"
ProjectsConfigured ==
    /\ bigquery.method = "_get_projects"
    /\ bigquery.config.project_ids # <<>> \/ bigquery.config.project_id # None
ProjectsListed ==
    /\ bigquery.method = "_get_projects"
    /\ bigquery.config.project_ids = <<>>
    /\ bigquery.config.project_id = None
ListingCalls == SelectSeq(bigquery.calls, LAMBDA c : c.name = "get_projects")

\* C21: with project_ids or project_id configured, the listing API is never
\* called and nothing is reported as dropped, and _get_projects returns one
\* project per configured id, in the configured order, each with the id as
\* its id and as its name: the ids of project_ids when there are any
\* (whatever project_id is), else the one project_id; ids that
\* project_id_pattern denies are among them.
C21_ConfiguredProjects ==
    ProjectsConfigured =>
        /\ ListingCalls = <<>>
        /\ bigquery.report.dropped = <<>>
        /\ bigquery.report.failures = <<>>
        /\ Returned("_get_projects") =>
               LET config == bigquery.config
                   result == bigquery.result
               IN  /\ config.project_ids # <<>> =>
                          /\ Len(result) = Len(config.project_ids)
                          /\ \A k \in 1..Len(result) :
                                 /\ result[k].id = config.project_ids[k]
                                 /\ result[k].name = config.project_ids[k]
                   /\ config.project_ids = <<>> =>
                          result = <<BigqueryProject(config.project_id,
                                                     config.project_id)>>

\* C21 witness: project_ids is [test-2, test-1], project_id is test-3 and
\* the pattern denies test-1 and test-2: both come back, in that order.
C21_Witness ==
    /\ Returned("_get_projects")
    /\ bigquery.config.project_ids = <<"test-2", "test-1">>
    /\ bigquery.config.project_id = "test-3"
    /\ bigquery.config.project_id_pattern.deny = {"test-1", "test-2"}
    /\ Len(bigquery.result) = 2
    /\ bigquery.result[1].id = "test-2"

\* The projects of a listing that the pattern allows, in the listing's order.
AllowedOf(projects) ==
    SelectSeq(projects,
        LAMBDA p : p.id \notin bigquery.config.project_id_pattern.deny)
ListingFailed == bigquery.api.raises \/ bigquery.api.projects = <<>>

\* C22: with no id configured, _get_projects calls the listing API once and
\* returns the listed projects that project_id_pattern allows, in the order
\* of the listing; the report holds one failure when the listing raised or
\* was empty, and then nothing is returned, and holds no failure otherwise,
\* also when the pattern denies every listed project and nothing is
\* returned.
C22_ListedProjects ==
    (ProjectsListed /\ Returned("_get_projects")) =>
        /\ Len(ListingCalls) = 1
        /\ Len(bigquery.report.failures) = (IF ListingFailed THEN 1 ELSE 0)
        /\ ListingFailed => bigquery.result = <<>>
        /\ ~ListingFailed =>
               /\ bigquery.result = AllowedOf(bigquery.api.projects)
               /\ Len(bigquery.result) + Len(bigquery.report.dropped)
                      = Len(bigquery.api.projects)

\* C22 witness: test-2 and test-1 are listed, in that order, the pattern
\* denies both: nothing is returned and no failure is reported.
C22_Witness ==
    /\ ProjectsListed
    /\ Returned("_get_projects")
    /\ Len(bigquery.api.projects) = 2
    /\ bigquery.api.projects[1].id = "test-2"
    /\ bigquery.config.project_id_pattern.deny = {"test-1", "test-2"}
    /\ bigquery.result = <<>>
    /\ bigquery.report.failures = <<>>

\* C22, further cases reached: the listing raised; one of two listed
\* projects is denied.
C22_WitnessRaised ==
    /\ ProjectsListed
    /\ Returned("_get_projects")
    /\ bigquery.api.raises
    /\ Len(bigquery.report.failures) = 1
C22_WitnessFiltered ==
    /\ ProjectsListed
    /\ Returned("_get_projects")
    /\ Len(bigquery.api.projects) = 2
    /\ Len(bigquery.result) = 1
    /\ bigquery.result[1].name = "two"

-----------------------------------------------------------------------------
(* BigqueryV2Source.get_core_table_details, get_tables_for_dataset         *)

\* get_core_table_details has returned: table_items is its result.
TablesKept ==
    /\ bigquery.method = "get_tables_for_dataset"
    /\ bigquery.pc \in {"for table_item in table_items", "returned"}
Listed == [k \in 1..Len(bigquery.api.tables) |-> bigquery.api.tables[k].table_id]
Kept == OrderedKeys(bigquery.frame.table_items)
IdentifierOf(table_id) ==
    BigqueryTableIdentifier(bigquery.frame.project_id,
                            bigquery.frame.dataset_name, table_id)
ShardOf(table_id) == get_table_and_shard(table_id).shard
IsSharded(table_id) == ShardOf(table_id) # None
\* The base table name of a sharded table: its name without the shard id,
\* the name of the dataset when nothing is left.
BaseOf(table_id) ==
    LET table == get_table_and_shard(table_id).table
    IN  IF table = <<>> THEN bigquery.frame.dataset_name ELSE table
IsTemporary(table_id) ==
    startswith(BigqueryTableIdentifier_str(IdentifierOf(table_id)),
               bigquery.config.temp_table_dataset_prefix)
ShardGroup(table_id) ==
    {u \in Range(Listed) : IsSharded(u) /\ BaseOf(u) = BaseOf(table_id)}

\* C23: the tables get_core_table_details returns are listed tables, each
\* once; a listed table that is not sharded is among them exactly if it is
\* not a temporary table; and of the listed sharded tables of one base table
\* name exactly one is among them, one whose shard id no other shard of the
\* group exceeds.
C23_LatestShard ==
    TablesKept =>
        /\ Range(Kept) \subseteq Range(Listed)
        /\ \A a, b \in 1..Len(Kept) : a # b => Kept[a] # Kept[b]
        /\ \A t \in Range(Listed) :
               ~IsSharded(t) => (t \in Range(Kept) <=> ~IsTemporary(t))
        /\ \A t \in Range(Listed) :
               IsSharded(t) =>
                   /\ Cardinality(ShardGroup(t) \cap Range(Kept)) = 1
                   /\ \A k \in ShardGroup(t) \cap Range(Kept), u \in ShardGroup(t) :
                          ~StrLess(ShardOf(k), ShardOf(u))

\* C23 witness: test-sharded-table_20220102, then _20210101, then
\* _20220101 are listed: the first listed, the latest, is the one kept.
C23_Witness ==
    /\ TablesKept
    /\ Listed = << <<"test-sharded-table", "_", "20220102">>,
                   <<"test-sharded-table", "_", "20210101">>,
                   <<"test-sharded-table", "_", "20220101">> >>
    /\ Kept = << <<"test-sharded-table", "_", "20220102">> >>

\* C23, further cases reached: tables named by a shard id alone and a shard
\* of a table named like the dataset are one group; a temporary table is
\* dropped while a shard in the same dataset is kept.
C23_WitnessDateNamed ==
    /\ TablesKept
    /\ bigquery.frame.dataset_name = <<"d">>
    /\ Listed = << <<"20220103">>, <<"d", "$", "20220102">>, <<"test-table">> >>
    /\ Kept = << <<"test-table">>, <<"20220103">> >>
C23_WitnessTemporary ==
    /\ TablesKept
    /\ Listed = << <<"test-table">>, <<"20220102">> >>
    /\ Kept = << <<"20220102">> >>
    /\ bigquery.report.dropped = << <<"p", ".", "_", "d", ".", "test-table">> >>

-----------------------------------------------------------------------------
(* auto_browse_path_v2: cycles of containers, units per URN                *)

\* The URNs whose container aspects name n as their container.
ChildrenOf(units, n) == {e[1] : e \in {x \in Range(ContainerEdges(units)) : x[2] = n}}

RECURSIVE Descendants(_, _, _)
\* What the child lists lead to from the URNs of from, these included, in
\* at most fuel steps.
Descendants(units, from, fuel) ==
    IF fuel = 0 THEN from
    ELSE Descendants(units,
                     from \cup UNION {ChildrenOf(units, n) : n \in from},
                     fuel - 1)

\* The URNs the container aspects of a stream mention.
EdgeUrns(units) ==
    {e[1] : e \in Range(ContainerEdges(units))}
        \cup {e[2] : e \in Range(ContainerEdges(units))}

\* n is on a cycle of the container edges.
OnCycle(units, n) ==
    n \in Descendants(units, ChildrenOf(units, n), Cardinality(EdgeUrns(units)))

\* The URNs pass 2 can take from its work-list: the roots and what the
\* child lists lead to from them.
Reachable(units) ==
    Descendants(units, RootContainers(units), Cardinality(EdgeUrns(units)))

HasCycle(units) == \E n \in EdgeUrns(units) : OnCycle(units, n)
HasReachableCycle(units) == \E n \in Reachable(units) : OnCycle(units, n)

\* Pass 2 of stage i has begun.
InOrPastPass2(i) == frame[i].pc \in {"pass2", "legacy", "done"}
WorklistNeverEmpty(i) == frame[i].pc = "pass2" /\ frame[i].nodes # {}

C24_WitnessUnreachableCycle ==
    \E i \in StagesOf("auto_browse_path_v2") :
        /\ HasCycle(Input(i))
        /\ ~HasReachableCycle(Input(i))
        /\ Completed(i)
        /\ frame[i].pops = 0

-----------------------------------------------------------------------------
(* auto_stale_entity_removal: the calls on the collaborator                *)

\* The positions in the call log where the removals were asked for.
GenRemovedAt ==
    {k \in 1..Len(handler.calls) :
        handler.calls[k][1] = "gen_removed_entity_workunits"}

\* C25: the collaborator is asked for the removals at most once, only after
\* the upstream has reported exhaustion, and that call is the last of the
\* call log at every later point of the run, so every add_entity_to_state
\* and add_urn_to_skip call comes before it and none follows it; a stage
\* that ran to its end has asked exactly once, and a removal unit is
\* yielded only after the call.
C25_CallSequence ==
    \A i \in StagesOf("auto_stale_entity_removal") :
        /\ Cardinality(GenRemovedAt) <= 1
        /\ GenRemovedAt # {} =>
               /\ GenRemovedAt = {Len(handler.calls)}
               /\ UpstreamExhausted(i)
               /\ Len(PassedThrough(i)) = Len(Input(i))
               /\ AddCalls = SubSeq(handler.calls, 1, Len(handler.calls) - 1)
        /\ Completed(i) => Cardinality(GenRemovedAt) = 1
        /\ Synthesized(i) # <<>> => GenRemovedAt # {}

\* C25 witness: a run to the end with two add_entity_to_state calls and one
\* add_urn_to_skip call, then the one call for the removals, and a removal
\* unit yielded.
C25_Witness ==
    \E i \in StagesOf("auto_stale_entity_removal") :
        /\ Completed(i)
        /\ Len(handler.calls) = 4
        /\ \E k \in 1..3 : handler.calls[k][1] = "add_urn_to_skip"
        /\ handler.calls[3][1] = "add_entity_to_state"
        /\ handler.calls[4][1] = "gen_removed_entity_workunits"
        /\ Synthesized(i) # <<>>

-----------------------------------------------------------------------------
(* Two invocations of a stage                                              *)

\* The URNs the units of a stream have or name.
MentionedUrns(units) ==
    UNION {list_urns(units[k].metadata) : k \in 1..Len(units)}

\* What the invocation that runs has gathered comes from its own input.
OwnAccumulation ==
    LET f == frame[1]
        own == UrnsOf(Input(1))
    IN  CASE chain = <<"auto_status_aspect">> ->
               f.all_urns \cup f.status_urns \subseteq own
          [] chain = <<"auto_materialize_referenced_tags">> ->
               /\ f.tags_with_aspects \subseteq own
               /\ f.referenced_tags \subseteq MentionedUrns(Input(1))
          [] chain = <<"auto_browse_path_v2">> ->
               /\ f.container_urns \cup f.ignore_urns \subseteq own
               /\ DOMAIN f.parent_container_map \subseteq own
               /\ DOMAIN f.legacy_browse_paths \subseteq own

\* The units the stage synthesizes when it runs alone over units, those of
\* auto_browse_path_v2 for a forest of containers.
AloneSynthesis(units) ==
    CASE chain = <<"auto_status_aspect">> ->
           {status_workunit(u) : u \in UrnsOf(units) \ HasStatusSet(units)}
      [] chain = <<"auto_materialize_referenced_tags">> ->
           {tag_key_workunit(t) : t \in
               {x \in AllTags : /\ \E u \in Range(units) : x \in list_urns(u.metadata)
                                /\ x \notin UrnsOf(units)}}
      [] chain = <<"auto_browse_path_v2">> ->
           {hierarchy_workunit(n, AncestorChain(units, n, MaxInvocationLen + 1)) :
               n \in Reachable(units) \ SkipSet(units)}
           \cup
           {legacy_workunit(u, ExpectedSegments(FirstLegacyPath(units, u), drop_dirs)) :
               u \in (LegacyPathUrns(units) \ Reachable(units)) \ SkipSet(units)}

\* The synthetic units keep the order of their URNs where the stage sorts.
AloneOrder(syn) ==
    chain # <<"auto_browse_path_v2">> =>
        StrictlyAscending([k \in 1..Len(syn) |-> get_urn(syn[k])])

\* C26: with two invocations of a stage taking turns in any way, at every
\* point what the running invocation has gathered comes from the units of
\* its own input alone, and once it has run to its end its output is what
\* the stage yields when run alone over that input: the input unit for unit,
\* then the synthetic units that input calls for, one each, sorted where
\* the stage sorts.  Either invocation is the running one at its turns.
C26_Isolation ==
    /\ OwnAccumulation
    /\ Completed(1) =>
           LET syn == [k \in 1..Len(Synthesized(1)) |-> Synthesized(1)[k].wu]
           IN  /\ Units(1) = Input(1) \o syn
               /\ Range(syn) = AloneSynthesis(Input(1))
               /\ Len(syn) = Cardinality(AloneSynthesis(Input(1)))
               /\ AloneOrder(syn)

\* C26 witness: two invocations of auto_status_aspect have both run to
\* their end; the one over a unit of D1 without a status aspect yielded a
\* status unit for D1, the other, over a status unit of D1 and a unit of D2,
\* yielded one for D2 alone.
C26_Witness ==
    /\ chain = <<"auto_status_aspect">>
    /\ other.active = Consumer /\ other.frame[1].pc = "done"
    /\ Completed(1)
    /\ Len(Input(1)) = 1
    /\ SynthUrns(1) = {D1}
    /\ Len(other.yielded[0]) = 2
    /\ other.yielded[0][1].wu =
           MetadataWorkUnit(MetadataChangeProposalWrapper(D1, StatusClass(FALSE)), TRUE)
    /\ Len(other.yielded[1]) = 3
    /\ get_urn(other.yielded[1][3].wu) = D2

\* C26, further cases reached: both invocations are under way, each with
\* one unit taken and a different one; two invocations of
\* auto_browse_path_v2 and of auto_materialize_referenced_tags have run to
\* their end over different inputs.
C26_WitnessUnderWay ==
    /\ other.active = Consumer /\ other.sig = "item"
    /\ active = Consumer /\ sig = "item"
    /\ Len(yielded[0]) = 1 /\ Len(other.yielded[0]) = 1
    /\ yielded[0] # other.yielded[0]
C26_WitnessBrowse ==
    /\ chain = <<"auto_browse_path_v2">>
    /\ other.frame[1].pc = "done" /\ Completed(1)
    /\ Len(Input(1)) = 2 /\ Len(Synthesized(1)) = 2
    /\ HierarchyUrns(1) = {P, C1}
    /\ Len(other.yielded[1]) = 2
    /\ other.yielded[1][2].by = "legacy"
C26_WitnessTags ==
    /\ chain = <<"auto_materialize_referenced_tags">>
    /\ other.frame[1].pc = "done" /\ Completed(1)
    /\ SynthUrns(1) = {T1, T2}
    /\ Len(other.yielded[0]) = 2 /\ Len(other.yielded[1]) = 2

-----------------------------------------------------------------------------
(* BigqueryV2Source.get_tables_for_dataset: the batches                    *)

\* The tables of each request made to the data dictionary, in order.
Batches ==
    LET requests == SelectSeq(bigquery.calls,
                              LAMBDA c : c.name = "get_tables_for_dataset")
    IN  [k \in 1..Len(requests) |-> requests[k].tables]

RECURSIVE Concat(_)
Concat(seqs) == IF seqs = <<>> THEN <<>> ELSE Head(seqs) \o Concat(Tail(seqs))

\* All tables requested, in the order of the requests.
Requested == Concat(Batches)

MaxBatchSize ==
    IF bigquery.config.profiling_enabled
    THEN bigquery.config.number_of_datasets_process_in_batch_if_profiling_enabled
    ELSE bigquery.config.number_of_datasets_process_in_batch

\* Where a listed table stands in the listing, and where the first listed
\* shard of its group stands.
ListedAt(table_id) == CHOOSE k \in 1..Len(Listed) : Listed[k] = table_id
GroupListedAt(table_id) ==
    CHOOSE k \in 1..Len(Listed) :
        /\ Listed[k] \in ShardGroup(table_id)
        /\ \A j \in 1..(k - 1) : Listed[j] \notin ShardGroup(table_id)

\* Every kept table is in exactly one batch, no other table is in any.
EachKeptTableOnce ==
    /\ Range(Requested) = Range(Kept)
    /\ Len(Requested) = Len(Kept)

\* No batch is empty or holds more than max_batch_size tables; all but the
\* last hold max_batch_size.
BatchSizes ==
    \A b \in 1..Len(Batches) :
        /\ Len(Batches[b]) >= 1
        /\ Len(Batches[b]) <= MaxBatchSize
        /\ b < Len(Batches) => Len(Batches[b]) = MaxBatchSize

\* C27 as stated: after get_tables_for_dataset has returned, every kept
\* table has been requested in exactly one batch, the tables requested
\* stand in the order of the listing, the batches have the sizes above, and
\* one request was made when max_batch_size tables or fewer were kept.
C27_BatchesInListingOrder ==
    Returned("get_tables_for_dataset") =>
        /\ EachKeptTableOnce
        /\ \A a, b \in 1..Len(Requested) :
               a < b => ListedAt(Requested[a]) < ListedAt(Requested[b])
        /\ BatchSizes
        /\ Len(Kept) <= MaxBatchSize => Len(Batches) = 1

\* C27, amended: after get_tables_for_dataset has returned, every kept
\* table has been requested in exactly one batch, the tables requested
\* stand in the order of the result of get_core_table_details, which is the
\* tables that are not sharded in the order of the listing, then the kept
\* shards in the order in which their groups first appear in the listing;
\* the batches have the sizes above; one request was made when at least one
\* and at most max_batch_size tables were kept, none when none was kept.
C27_BatchesInResultOrder ==
    Returned("get_tables_for_dataset") =>
        /\ EachKeptTableOnce
        /\ Requested = Kept
        /\ \A a, b \in 1..Len(Requested) :
               a < b =>
                   LET x == Requested[a]
                       y == Requested[b]
                   IN  /\ IsSharded(x) => IsSharded(y)
                       /\ (~IsSharded(x) /\ ~IsSharded(y)) =>
                              ListedAt(x) < ListedAt(y)
                       /\ (IsSharded(x) /\ IsSharded(y)) =>
                              GroupListedAt(x) < GroupListedAt(y)
        /\ BatchSizes
        /\ (Len(Kept) >= 1 /\ Len(Kept) <= MaxBatchSize) => Len(Batches) = 1
        /\ Len(Kept) = 0 => Len(Batches) = 0

\* C27 witness: with max_batch_size 2, a shard of test-sharded-table is
\* listed before test-table and table 20220103: the first request is for
\* test-table and the shard, the second for table 20220103.
C27_Witness ==
    /\ Returned("get_tables_for_dataset")
    /\ MaxBatchSize = 2
    /\ Listed = << <<"test-sharded-table", "_", "20220101">>,
                   <<"test-table">>, <<"20220103">> >>
    /\ Batches = << << <<"test-table">>,
                       <<"test-sharded-table", "_", "20220101">> >>,
                    << <<"20220103">> >> >>

\* C27, further cases reached: nothing was kept and no request was made;
\* with max_batch_size 1, three requests of one table each.
C27_WitnessNoTable ==
    /\ Returned("get_tables_for_dataset")
    /\ Listed # <<>>
    /\ Kept = <<>>
    /\ Batches = <<>>
C27_WitnessThreeBatches ==
    /\ Returned("get_tables_for_dataset")
    /\ MaxBatchSize = 1
    /\ Len(Batches) = 3

-----------------------------------------------------------------------------
(* auto_status_aspect(auto_materialize_referenced_tags(S))                 *)

UnitsOf(ys) == [k \in 1..Len(ys) |-> ys[k].wu]

\* C28: in the chain auto_status_aspect(auto_materialize_referenced_tags(S))
\* run to the end, the input of auto_status_aspect is the units of S in
\* order followed by the tag-key units, its output is that input followed
\* by the status units, the status units are those the whole input calls
\* for, tag-key units counted like any unit, and every tag that was
\* materialized has a status unit.
C28_Composition ==
    (chain = Composed /\ Completed(1) /\ Completed(2)) =>
        LET S == Units(0)
            tag_keys == UnitsOf(Synthesized(1))
            statuses == UnitsOf(Synthesized(2))
        IN  /\ Input(2) = S \o tag_keys
            /\ Units(2) = (S \o tag_keys) \o statuses
            /\ \A k \in 1..Len(tag_keys) : IsTagKeyUnit(tag_keys[k])
            /\ \A k \in 1..Len(statuses) : IsNotRemovedStatusUnit(statuses[k])
            /\ SynthUrns(2) = UrnsOf(S \o tag_keys) \ HasStatusSet(S \o tag_keys)
            /\ SynthUrns(1) \subseteq SynthUrns(2)

\* C28 witness: S is a primary-source unit of D1 naming T2 and T1, a unit of
\* T1, and a unit of D2 that is not primary-source naming T2; T2 is
\* materialized, and the status units are those of D1, T1 and T2.
C28_Witness ==
    /\ chain = Composed
    /\ Completed(1) /\ Completed(2)
    /\ active = Consumer /\ sig = "stop"
    /\ Len(Units(0)) = 3
    /\ SynthUrns(1) = {T2}
    /\ SynthUrns(2) = {D1, T1, T2}
    /\ Len(Units(2)) = 7

-----------------------------------------------------------------------------
(* auto_status_aspect: when the error is raised                            *)

\* Stage i has pulled a primary-source unit of unrecognised payload and has
\* not looked at it yet.
BadUnitPulled(i) ==
    /\ Pending(i)
    /\ hand.is_primary_source
    /\ ~recognised(hand)

\* C29: when auto_status_aspect has pulled a primary-source unit of
\* unrecognised payload, every unit it pulled before is in its output
\* already and nothing is synthesized; its next step raises ValueError to
\* its downstream neighbour and yields nothing, so the unit is never
\* yielded; and once it has raised, its output stays as it is, so no status
\* unit follows.
C29_ErrorTiming ==
    /\ [](\A i \in StagesOf("auto_status_aspect") :
             BadUnitPulled(i) =>
                 /\ Units(i) = SubSeq(Input(i), 1, Len(Input(i)) - 1)
                 /\ Synthesized(i) = <<>>)
    /\ [][\A i \in StagesOf("auto_status_aspect") :
             BadUnitPulled(i) =>
                 /\ yielded' = yielded
                 /\ active' = i + 1
                 /\ sig' = "error"
                 /\ err' = "ValueError"]_vars
    /\ [][\A i \in StagesOf("auto_status_aspect") :
             frame[i].pc = "raised" =>
                 /\ yielded'[i] = yielded[i]
                 /\ frame'[i].pc = "raised"]_vars

\* C29 witness: two units went through and reached the consumer, the third,
\* primary-source and of unrecognised payload, ended the run with
\* ValueError; nothing was synthesized although the URN of the first two
\* has no status.
C29_Witness ==
    \E i \in StagesOf("auto_status_aspect") :
        /\ RaisedValueError(i)
        /\ active = Consumer
        /\ Len(Input(i)) = 3
        /\ Input(i)[3].is_primary_source /\ ~recognised(Input(i)[3])
        /\ Units(i) = SubSeq(Input(i), 1, 2)
        /\ UrnsOf(Units(i)) \ HasStatusSet(Units(i)) # {}
        /\ Synthesized(i) = <<>>

-----------------------------------------------------------------------------
(* auto_browse_path_v2: units per URN                                      *)

\* C30 as stated: no two units that auto_browse_path_v2 has synthesized,
\* hierarchy-derived or legacy-derived, are for the same URN.
C30_OneSynthesizedUnitPerUrn ==
    \A i \in StagesOf("auto_browse_path_v2") :
        \A j, k \in HierarchyAt(i) \cup LegacyAt(i) :
            get_urn(yielded[i][j].wu) = get_urn(yielded[i][k].wu) => j = k

-----------------------------------------------------------------------------
(* auto_browse_path_v2: the lookup of the parent's path                    *)

\* C31 as stated: pass 2 never fails. Every node on the work-list that has
\* a recorded parent finds the path of that parent computed, whichever node
\* is taken next, and no run of the stage ends with a KeyError.
C31_ParentPathComputed ==
    \A i \in StagesOf("auto_browse_path_v2") :
        /\ frame[i].pc = "pass2" =>
               \A node \in frame[i].nodes : ~path_of(frame[i], node).KeyError
        /\ ~(frame[i].pc = "raised" /\ err = "KeyError")

-----------------------------------------------------------------------------
(* auto_browse_path_v2 alone, with a pass 2 that is resumed until it ends  *)

InitBrowse == Init /\ chain = <<"auto_browse_path_v2">>

\* The units that build the hierarchy: two containers that can be roots,
\* containers with one and two parents, a dataset in a container, and a
\* container to skip.
HierarchyUnits ==
    { MetadataWorkUnit(MetadataChangeProposalWrapper(P, ContainerPropertiesClass), TRUE),
      MetadataWorkUnit(MetadataChangeProposalWrapper(C1, ContainerClass(P)), TRUE),
      MetadataWorkUnit(MetadataChangeProposalClass(C2, ContainerClass(C1)), TRUE),
      MetadataWorkUnit(MetadataChangeProposalWrapper(C1, ContainerClass(C2)), TRUE),
      MetadataWorkUnit(MetadataChangeEventClass(C1,
          <<ContainerClass(C2), ContainerClass(P)>>), TRUE),
      MetadataWorkUnit(MetadataChangeProposalWrapper(C1, BrowsePathsV2Class(<<>>)), TRUE),
      MetadataWorkUnit(MetadataChangeProposalWrapper(D1, ContainerClass(C1)), TRUE),
      MetadataWorkUnit(MetadataChangeProposalWrapper(C2, ContainerPropertiesClass), TRUE) }

HierarchySourceYield ==
    /\ active = 0 /\ sig = "next"
    /\ Len(yielded[0]) < MaxLen
    /\ \E wu \in HierarchyUnits : Yield(0, wu, "input")
    /\ UNCHANGED <<snowflake, bigquery, other, chain, frame, handler, report, entity_type_fn, drop_dirs>>

NextBrowse ==
    \/ HierarchySourceYield
    \/ SourceStop
    \/ SourceRaise
    \/ ConsumerNext
    \/ ConsumerStop
    \/ \E i \in Stages : StagePull(i)
    \/ \E i \in Stages : StagePropagate(i)
    \/ \E i \in Stages : auto_browse_path_v2_item(i)
    \/ \E i \in Stages : auto_browse_path_v2_next(i)
    \/ \E i \in Stages : auto_browse_path_v2_stop(i)
    \/ \E i \in Stages : auto_browse_path_v2_pop(i)
    \/ \E i \in Stages : auto_browse_path_v2_legacy(i)
    \/ \E i \in Stages : auto_browse_path_v2_emit(i)

\* A generator that is resumed runs to its next yield, and a consumer that
\* has a unit in hand either asks for the next one or stops asking: some
\* step is taken whenever one can be.
SpecBrowse == InitBrowse /\ [][NextBrowse]_vars /\ WF_vars(NextBrowse)

\* Each URN of the stream carries at most one container aspect.
OneContainerAspectEach(units) ==
    \A n \in UrnsOf(units) :
        Len(SelectSeq(ContainerEdges(units), LAMBDA e : e[1] = n)) <= 1

\* The nodes pass 2 of stage i has taken from its work-list so far: each
\* one that did not fail got a path.
Visited(i) == DOMAIN frame[i].paths

\* Nothing visited is on the work-list again, every node taken was a new
\* one, and the nodes taken and to take are among those the child lists
\* lead to from the roots.
EachNodeOnce(i) ==
    /\ frame[i].nodes \cap Visited(i) = {}
    /\ frame[i].pops = Cardinality(Visited(i))
    /\ Visited(i) \cup frame[i].nodes \subseteq Reachable(Input(i))
    /\ frame[i].pops + Cardinality(frame[i].nodes) <= Len(Input(i))

\* Pass 2 is over, or the consumer has stopped asking for units.
Pass2Ended ==
    \/ sig = "abandoned"
    \/ \A i \in StagesOf("auto_browse_path_v2") : frame[i].pc \in {"legacy", "done"}

Pass2OfOneContainerAspectEach ==
    \E i \in StagesOf("auto_browse_path_v2") :
        frame[i].pc = "pass2" /\ OneContainerAspectEach(Input(i))

\* C32: over an input in which each URN carries at most one container
\* aspect, pass 2 visits each node at most once, takes no more nodes than
\* the input has units, and comes to an end with its work-list empty,
\* also when the recorded parent edges contain a cycle.
C32_TerminatesOnWellFormedInput ==
    /\ [](\A i \in StagesOf("auto_browse_path_v2") :
             (frame[i].pc \in {"pass2", "legacy", "done"}
                 /\ OneContainerAspectEach(Input(i)))
                => /\ EachNodeOnce(i)
                   /\ frame[i].pc \in {"legacy", "done"} => frame[i].nodes = {})
    /\ (Pass2OfOneContainerAspectEach ~> Pass2Ended)

\* C32 witness: C1 and C2 are each other's container, P is a root, no URN
\* has two container aspects; pass 2 took P alone and the run is over.
C32_Witness ==
    \E i \in StagesOf("auto_browse_path_v2") :
        /\ OneContainerAspectEach(Input(i))
        /\ HasCycle(Input(i))
        /\ Completed(i)
        /\ frame[i].pops = 1
        /\ Visited(i) = {P}

-----------------------------------------------------------------------------
(* auto_browse_path_v2: which URNs get a hierarchy-derived unit            *)

RECURSIVE UnderRoot(_, _, _)
\* The recorded parents of n lead, in at most fuel steps, to a container
\* that was the subject of a unit and has no recorded parent; n may be that
\* container itself.
UnderRoot(units, n, fuel) ==
    IF n \in RootContainers(units) THEN TRUE
    ELSE IF fuel = 0 \/ ~HasRecordedParent(units, n) THEN FALSE
    ELSE UnderRoot(units, RecordedParent(units, n), fuel - 1)

\* The URNs that are to get a hierarchy-derived unit.
Covered(units) ==
    {u \in UrnsOf(units) :
        u \notin SkipSet(units) /\ UnderRoot(units, u, Len(units) + 1)}

\* The URNs stage i has emitted a hierarchy-derived unit for.
Emitted(i) == {get_urn(yielded[i][k].wu) : k \in HierarchyAt(i)}

\* Stage i has read its whole input and has ended, by a return or by an
\* exception of its own.
RunEnded(i) == frame[0].pc = "done" /\ frame[i].pc \in {"done", "raised"}

\* Every hierarchy-derived unit is for a URN that is to get one, and its
\* path ends with the URN's recorded parent, skipped or not.
OnlyCovered(i) ==
    /\ Emitted(i) \subseteq Covered(Input(i))
    /\ \A k \in HierarchyAt(i) :
           LET wu == yielded[i][k].wu
               path == wu.metadata.aspect.path
           IN  HasRecordedParent(Input(i), get_urn(wu)) =>
                   /\ path # <<>>
                   /\ path[Len(path)].urn = RecordedParent(Input(i), get_urn(wu))

\* C33 as stated: a URN gets a hierarchy-derived unit only if it is not in
\* the skip set and lies under a root container, and once the stage has read
\* all its input and has ended, every such URN has got one.
C33_Coverage ==
    \A i \in StagesOf("auto_browse_path_v2") :
        /\ OnlyCovered(i)
        /\ RunEnded(i) => Emitted(i) = Covered(Input(i))

\* The same of the runs that end by a return.
CoverageOfCompletedRuns ==
    \A i \in StagesOf("auto_browse_path_v2") :
        /\ OnlyCovered(i)
        /\ Completed(i) => Emitted(i) = Covered(Input(i))

\* A completed run in which the skipped C1 is in the path of D1.
CoverageWitnessSkippedAncestor ==
    \E i \in StagesOf("auto_browse_path_v2") :
        /\ Completed(i)
        /\ C1 \in SkipSet(Input(i))
        /\ Emitted(i) = {D1}

\* A run ended by the KeyError of pass 2 with a covered URN left out.
CoverageWitnessKeyError ==
    \E i \in StagesOf("auto_browse_path_v2") :
        /\ RunEnded(i) /\ frame[i].pc = "raised" /\ err = "KeyError"
        /\ Covered(Input(i)) \ Emitted(i) # {}

-----------------------------------------------------------------------------
(* BigqueryV2Source.get_workunits_internal: the phases of a run            *)

RunOut == bigquery.out
RunCalls == bigquery.calls
MetadataKinds == {"project container", "dataset container", "table", "view", "profile"}
KindAt(kind) == {n \in 1..Len(RunOut) : RunOut[n].kind = kind}
MetadataAt == {n \in 1..Len(RunOut) : RunOut[n].kind \in MetadataKinds}
CallsOf(name) == {n \in 1..Len(RunCalls) : RunCalls[n].name = name}
StagesSet(stage) ==
    {n \in CallsOf("set_ingestion_stage") : RunCalls[n].arg[2] = stage}

\* The positions of the run before usage, and those of lineage.
MetadataPhase ==
    {"get_workunits_internal", "for project_id", "get_datasets_for_project_id",
     "for bigquery_dataset", "get_columns_for_dataset", "for table",
     "get_views_for_dataset", "for view"}
LineagePhase == {"for project", "for lineage_key"}

UsageStarted == CallsOf("usage_extractor.run") # {}
UsageFinished == CallsOf("usage_extractor.run returned") # {}
LineageStarted == CallsOf("calculate_lineage_for_project") # {}

\* C34: in the units of a run every metadata unit comes before every usage
\* unit and every usage unit before every lineage unit; usage starts only
\* after every project was processed and is handed the table_refs the run
\* ends with; lineage starts only after usage has returned, and table_refs
\* and the metadata units stay as they are from then on; when no project is
\* found the run returns with no unit and no call of usage or lineage.
C34_PhaseOrder ==
    /\ [](bigquery.method = "get_workunits_internal" =>
            /\ \A a \in MetadataAt : \A b \in KindAt("usage") \cup KindAt("lineage") : a < b
            /\ \A a \in KindAt("usage") : \A b \in KindAt("lineage") : a < b
            /\ bigquery.pc \in MetadataPhase =>
                   /\ ~UsageStarted /\ ~LineageStarted
                   /\ KindAt("usage") \cup KindAt("lineage") = {}
            /\ UsageStarted =>
                   /\ Cardinality(StagesSet("Metadata Extraction"))
                          = Len(bigquery.api.projects)
                   /\ \A n \in CallsOf("usage_extractor.run") :
                          RunCalls[n].arg.table_refs = bigquery.table_refs
            /\ (LineageStarted \/ KindAt("lineage") # {}) =>
                   /\ bigquery.pc \in LineagePhase \cup {"returned"}
                   /\ UsageStarted => UsageFinished
                   /\ Cardinality(StagesSet("Metadata Extraction"))
                          = Len(bigquery.api.projects)
            /\ bigquery.api.projects = <<>> =>
                   /\ RunOut = <<>>
                   /\ ~UsageStarted /\ ~LineageStarted
                   /\ bigquery.pc \in {"get_workunits_internal", "returned"})
    /\ [][(bigquery.method = "get_workunits_internal"
              /\ bigquery.pc \notin MetadataPhase) =>
             /\ bigquery'.table_refs = bigquery.table_refs
             /\ \A n \in 1..Len(bigquery'.out) :
                    bigquery'.out[n].kind \in MetadataKinds => n <= Len(bigquery.out)]_vars

\* C34 witness: a run over two projects has returned with table and view
\* units, then a usage unit, then lineage units, usage having been handed a
\* table_refs that is not empty.
C34_Witness ==
    /\ bigquery.method = "get_workunits_internal"
    /\ bigquery.pc = "returned"
    /\ Len(bigquery.api.projects) = 2
    /\ KindAt("table") # {} /\ KindAt("view") # {}
    /\ KindAt("usage") # {} /\ KindAt("lineage") # {}
    /\ \E n \in CallsOf("usage_extractor.run") : RunCalls[n].arg.table_refs # {}

\* A run that found no project has returned.
C34_WitnessNoProject ==
    /\ bigquery.method = "get_workunits_internal"
    /\ bigquery.pc = "returned"
    /\ bigquery.api.projects = <<>>
    /\ bigquery.config.include_usage_statistics
    /\ bigquery.config.include_table_lineage

-----------------------------------------------------------------------------
(* BigqueryV2Source._process_project: exceptions of the API                *)

RunFailuresOf(id) ==
    {n \in 1..Len(bigquery.report.failures) : bigquery.report.failures[n].id = id}
RunHasUnit(kind, id) == RunUnit(kind, id) \in Range(RunOut)

\* The projects whose turn in the loop of the metadata phase is over.
ProjectsDone ==
    IF bigquery.pc \in MetadataPhase
    THEN {bigquery.frame.projects[n] : n \in 1..(bigquery.frame.k - 1)}
    ELSE Range(bigquery.api.projects)

\* The API call that is to fail for dataset_name is one the run makes.
SchemaFails(dataset_name) ==
    LET fails == bigquery.api.fails
        config == bigquery.config
    IN  /\ fails.dataset = dataset_name
        /\ \/ fails.at = "get_columns_for_dataset"
                  /\ (config.include_tables \/ config.include_views)
           \/ fails.at = "gen_table_dataset_workunits" /\ config.include_tables
           \/ fails.at = "get_views_for_dataset" /\ config.include_views

\* C35: no exception of the API while a project's datasets are listed or a
\* dataset is processed leaves the generator.  Of every project that is
\* done: if listing its datasets failed, one failure is reported for the
\* project and its container unit is its only unit; otherwise every dataset
\* the pattern allows has its container unit, also the datasets after one
\* that failed, a dataset that failed has one failure reported and keeps the
\* units yielded before the exception, and a dataset that did not fail has
\* no failure reported.
C35_ErrorIsolation ==
    bigquery.method = "get_workunits_internal" =>
        /\ bigquery.raised \in {"", "usage_extractor.run"}
        /\ \A project_id \in ProjectsDone :
            /\ RunHasUnit("project container", project_id)
            /\ IF bigquery.api.datasets[project_id] = "raises"
               THEN /\ Cardinality(RunFailuresOf(project_id)) = 1
                    /\ \A n \in 1..Len(RunOut) :
                           startswith(RunOut[n].id, project_id)
                               => RunOut[n] = RunUnit("project container", project_id)
               ELSE RunFailuresOf(project_id) = {}
            /\ bigquery.api.datasets[project_id] = "all" =>
                \A n \in 1..Len(RunDatasets) :
                    LET dataset_name == RunDatasets[n]
                        id == project_id \o <<".", dataset_name>>
                    IN  /\ RunHasUnit("dataset container", id)
                            <=> allowed(bigquery.config.dataset_pattern, dataset_name)
                        /\ Cardinality(RunFailuresOf(id))
                               = IF SchemaFails(dataset_name) THEN 1 ELSE 0
                        /\ (dataset_name = "d" /\ bigquery.config.include_tables
                               /\ bigquery.api.fails.at # "get_columns_for_dataset")
                             => RunHasUnit("table", id \o <<".", "test-table">>)
                        /\ (dataset_name = "e" /\ bigquery.config.include_tables
                               /\ bigquery.api.fails.dataset # "e")
                             => RunHasUnit("table", id \o <<".", "other-table">>)

\* C35 witness: the run has returned; the datasets of q could not be
\* listed; in p the second table of d failed, the unit of its first table is
\* kept, and e, which comes after d, has its container and its table.
C35_Witness ==
    /\ bigquery.method = "get_workunits_internal"
    /\ bigquery.pc = "returned"
    /\ bigquery.api.projects = << <<"q">>, <<"p">> >>
    /\ bigquery.api.datasets[<<"q">>] = "raises"
    /\ bigquery.api.datasets[<<"p">>] = "all"
    /\ bigquery.api.fails = [dataset |-> "d", at |-> "gen_table_dataset_workunits"]
    /\ Len(bigquery.report.failures) = 2
    /\ RunHasUnit("table", <<"p", ".", "d", ".", "test-table">>)
    /\ ~RunHasUnit("table", <<"p", ".", "d", ".", "test-sharded-table", "_", "20220102">>)
    /\ RunHasUnit("dataset container", <<"p", ".", "e">>)
    /\ RunHasUnit("table", <<"p", ".", "e", ".", "other-table">>)

-----------------------------------------------------------------------------
(* BigqueryV2Source.generate_lineage: the keys that yield a unit           *)

\* The refs of the tables and views that the run can discover in the
\* datasets its pattern allows and that the table and view patterns allow.
DiscoveredAndAllowed ==
    LET config == bigquery.config
    IN  UNION {
          {table_ref_of(project_id, RunDatasets[n], TablesOf(RunDatasets[n])[t]) :
              t \in {x \in 1..Len(TablesOf(RunDatasets[n])) :
                  allowed(config.table_pattern,
                      RunRawName(project_id, RunDatasets[n], TablesOf(RunDatasets[n])[x]))}}
          \cup
          {table_ref_of(project_id, RunDatasets[n], ViewsOf(RunDatasets[n])[t]) :
              t \in {x \in 1..Len(ViewsOf(RunDatasets[n])) :
                  allowed(config.view_pattern,
                      RunRawName(project_id, RunDatasets[n], ViewsOf(RunDatasets[n])[x]))}}
          : project_id \in {q \in Range(bigquery.api.projects) :
                                bigquery.api.datasets[q] = "all"},
            n \in {x \in 1..Len(RunDatasets) :
                      allowed(config.dataset_pattern, RunDatasets[x])} }

\* The lineage keys generate_lineage has gone through for the project at
\* hand.
KeysPassed ==
    {bigquery.frame.lineage[n].key : n \in 1..(bigquery.frame.l - 1)}

\* C36: every lineage unit is for a key that is in table_refs, table_refs
\* holds only refs of tables and views that the run discovered and that the
\* table and view patterns allow, and a key that generate_lineage has gone
\* through and that is not in table_refs has no unit.
C36_LineageOnlyForTableRefs ==
    bigquery.method = "get_workunits_internal" =>
        /\ \A n \in KindAt("lineage") : RunOut[n].id \in bigquery.table_refs
        /\ bigquery.table_refs \subseteq DiscoveredAndAllowed
        /\ bigquery.pc = "for lineage_key" =>
               \A key \in KeysPassed \ bigquery.table_refs :
                   ~RunHasUnit("lineage", key)

\* C36 witness: generate_lineage has gone through the four keys of p; the
\* sharded table, which the run found, has its unit; the table the pattern
\* denies and the table the run never saw have upstreams and no unit.
C36_Witness ==
    /\ bigquery.method = "get_workunits_internal"
    /\ bigquery.pc = "for lineage_key"
    /\ bigquery.frame.project_id = <<"p">>
    /\ bigquery.frame.l > 4
    /\ RunHasUnit("lineage", <<"p", ".", "d", ".", "test-sharded-table">>)
    /\ <<"p", ".", "d", ".", "denied-table">> \in KeysPassed \ bigquery.table_refs
    /\ <<"p", ".", "z", ".", "unseen-table">> \in KeysPassed \ bigquery.table_refs
    /\ ~RunHasUnit("lineage", <<"p", ".", "d", ".", "denied-table">>)
    /\ ~RunHasUnit("lineage", <<"p", ".", "z", ".", "unseen-table">>)

\* A view of the run has its lineage unit from the upstreams parsed out of
\* its definition.
C36_WitnessView ==
    /\ bigquery.method = "get_workunits_internal"
    /\ bigquery.pc = "returned"
    /\ RunHasUnit("lineage", <<"p", ".", "e", ".", "test-view">>)

-----------------------------------------------------------------------------
(* SnowflakeV2Config: configurations without the technical schema          *)

SnowflakeValidated == snowflake.pc = "validated"
SnowflakeRejected == snowflake.errors # <<>>
TechnicalSchemaRule == "Cannot perform Deletion Detection or Profiling"

ProfilingEnabled ==
    snowflake.values.profiling # Missing /\ snowflake.values.profiling[1].enabled
DeletionDetectionEnabled ==
    /\ snowflake.values.stateful_ingestion # Missing
    /\ snowflake.values.stateful_ingestion[1].enabled
    /\ snowflake.values.stateful_ingestion[1].remove_stale_metadata

\* C37: once the validators have run, a configuration with
\* include_technical_schema false and profiling enabled, or stateful
\* ingestion enabled with remove_stale_metadata, is rejected, by the rule
\* about the technical schema unless the rule about
\* include_read_operational_stats rejected it first; with
\* include_technical_schema true the rule about the technical schema
\* rejects nothing, and without profiling and deletion detection neither.
C37_RejectsWithoutTechnicalSchema ==
    SnowflakeValidated =>
        /\ (snowflake.values.include_technical_schema = Given(FALSE)
                /\ (ProfilingEnabled \/ DeletionDetectionEnabled))
              => /\ SnowflakeRejected
                 /\ ~IsTrue(snowflake.values.include_read_operational_stats)
                        => TechnicalSchemaRule \in Range(snowflake.errors)
        /\ snowflake.values.include_technical_schema = Given(TRUE)
              => TechnicalSchemaRule \notin Range(snowflake.errors)
        /\ (~ProfilingEnabled /\ ~DeletionDetectionEnabled)
              => TechnicalSchemaRule \notin Range(snowflake.errors)

\* C37 witness: validated values with include_technical_schema false,
\* profiling disabled, stateful ingestion enabled with remove_stale_metadata,
\* and the rule about the technical schema as the only error.
C37_Witness ==
    /\ SnowflakeValidated
    /\ snowflake.values.include_technical_schema = Given(FALSE)
    /\ ~ProfilingEnabled
    /\ DeletionDetectionEnabled
    /\ snowflake.errors = <<TechnicalSchemaRule>>

\* Validated values with include_technical_schema true and profiling
\* enabled, accepted.
C37_WitnessAccepted ==
    /\ SnowflakeValidated
    /\ snowflake.values.include_technical_schema = Given(TRUE)
    /\ ProfilingEnabled /\ DeletionDetectionEnabled
    /\ ~SnowflakeRejected
====
